---- MODULE Spec2Model ----
(***************************************************************************)
(* Model of sonar_report: the HTTP transport wrapper and the paginated     *)
(* fetcher of client.py, the measure normaliser and the report builders of *)
(* reports/coverage.py, the issue builders of reports/issues.py and the    *)
(* alias resolution of config.py.                                          *)
(* Each component has its own specification over the shared variables.     *)
(***************************************************************************)
EXTENDS Integers, Sequences, FiniteSets, TLC

VARIABLES
    pc,               \* position of the client call: idle, running, returned, raised
    op,               \* the public method being executed: none, get, get_paginated
    all_results,      \* get_paginated: the accumulator (client.py:88)
    page,             \* get_paginated: the page counter (client.py:89)
    warning_emitted,  \* get_paginated: the once-only flag (client.py:90)
    warnings,         \* number of warnings.warn calls made by the current call
    prev_warnings,    \* number of warnings.warn calls made by the previous call
    endpoint,         \* the API path the current call was given
    params,           \* the query parameters the caller passed to the current call
    log,              \* the requests of the current call, each with its outcome;
                      \* get_uncovered_lines: those of all its client calls
    result,           \* what the current call handed to its caller
    measure,          \* _parse_value: the measure dict it is called with
    parsed,           \* _parse_value: what the call produced
    mapping,          \* _strip_new_prefix: the dict it is called with
    stripped,         \* _strip_new_prefix: the dict it returned
    projects,         \* Config.projects: alias -> project key
    name,             \* resolve_project: the name it is called with
    resolved,         \* resolve_project: what the call produced
    builder,          \* the report builder being executed and its arguments
    catalog,          \* the records the backend holds for the builder's queries
    report,           \* what the report builder handed to its caller
    uncovered_files,  \* get_uncovered_lines: the files of step 1 (coverage.py:174)
    files_report      \* get_uncovered_lines: the files of step 2 (coverage.py:182)

clientVars == <<pc, op, all_results, page, warning_emitted, warnings,
                prev_warnings, endpoint, params, log, result>>

normVars == <<measure, parsed, mapping, stripped>>

configVars == <<projects, name, resolved>>

builderVars == <<builder, catalog, report, uncovered_files, files_report>>

vars == <<clientVars, normVars, configVars, builderVars>>

----------------------------------------------------------------------------
(* Program constants                                                        *)

PAGE_SIZE == 500
PAGINATION_WARNING_THRESHOLD == 10000

(* Bounds of the model                                                      *)

MaxRequests == 3     \* requests one get_paginated call may issue in the model
MaxAliases == 2      \* aliases a configuration holds in the model

----------------------------------------------------------------------------
(* Exceptions (client.py:22-35).  ExcParent gives the direct base class.    *)

ClientErrors ==
    {"SonarClientError", "AuthenticationError", "NotFoundError", "NetworkError"}

ExcParent(e) ==
    CASE e = "AuthenticationError" -> "SonarClientError"
      [] e = "NotFoundError"       -> "SonarClientError"
      [] e = "NetworkError"        -> "SonarClientError"
      [] e = "SonarClientError"    -> "Exception"
      [] OTHER                     -> "Exception"

\* isinstance-style test: e is cls or derives from it
IsSubtype(e, cls) ==
    \/ e = cls
    \/ ExcParent(e) = cls
    \/ ExcParent(ExcParent(e)) = cls

----------------------------------------------------------------------------
(* What the HTTP session can hand back for one GET                          *)

\* A response body after JSON decoding: the results array under results_key
\* and the paging object, either of which may be missing.
JsonBody(hasResults, n, hasPaging, hasTotal, total) ==
    [hasResults |-> hasResults, n |-> n,
     hasPaging |-> hasPaging, hasTotal |-> hasTotal, total |-> total]

EmptyBody == JsonBody(FALSE, 0, FALSE, FALSE, 0)

\* exc: the exception session.get raised ("none" when it returned a response);
\* json: whether response.json() can decode the body.
Transport(exc, status, json, body) ==
    [exc |-> exc, status |-> status, json |-> json, body |-> body]

PageSizes == {0, 250, PAGE_SIZE, PAGINATION_WARNING_THRESHOLD + 1}
Totals == {0, 750, 1250, PAGINATION_WARNING_THRESHOLD,
           PAGINATION_WARNING_THRESHOLD + 1}

PageBodies ==
    {JsonBody(TRUE, n, TRUE, TRUE, t) : n \in PageSizes, t \in Totals}
    \cup {JsonBody(TRUE, n, TRUE, FALSE, 0) : n \in PageSizes}
    \cup {JsonBody(TRUE, n, FALSE, FALSE, 0) : n \in {0, PAGE_SIZE}}
    \cup {JsonBody(FALSE, 0, TRUE, TRUE, t) : t \in {0, 750}}
    \cup {EmptyBody}

TransportExceptions == {"Timeout", "ConnectionError", "TooManyRedirects"}
Statuses == {100, 200, 204, 304, 400, 401, 404, 500}

TransportOutcomes ==
    {Transport(e, 0, FALSE, EmptyBody) : e \in TransportExceptions}
    \cup {Transport("none", 200, TRUE, b) : b \in PageBodies}
    \cup {Transport("none", s, TRUE, JsonBody(TRUE, 250, TRUE, FALSE, 0)) :
            s \in Statuses \ {200, 204, 304}}
    \cup {Transport("none", s, FALSE, EmptyBody) : s \in Statuses}

----------------------------------------------------------------------------
(* SonarClient._request (client.py:124-150)                                 *)

Raised(error, status) ==
    [kind |-> "raised", error |-> error, status |-> status, body |-> EmptyBody]

Returned(body) ==
    [kind |-> "returned", error |-> "none", status |-> 0, body |-> body]

\* requests.Response.ok as used at client.py:145: false exactly for the
\* statuses raise_for_status rejects, 400..599.
ResponseOk(status) == ~(400 <= status /\ status < 600)

Request(t) ==
    IF t.exc = "Timeout" THEN Raised("NetworkError", 0)
    ELSE IF t.exc = "ConnectionError" THEN Raised("NetworkError", 0)
    ELSE IF t.exc # "none" THEN Raised(t.exc, 0)
    ELSE IF t.status = 401 THEN Raised("AuthenticationError", 401)
    ELSE IF t.status = 404 THEN Raised("NotFoundError", 404)
    ELSE IF ~ResponseOk(t.status) THEN Raised("SonarClientError", t.status)
    ELSE IF ~t.json THEN Raised("JSONDecodeError", 0)
    ELSE Returned(t.body)

----------------------------------------------------------------------------
(* SonarClient.get_paginated (client.py:68-118)                             *)

\* A list of records is kept as the list of its runs of consecutively numbered
\* records, [first, n] standing for the records first .. first+n-1; no run is
\* empty and no two neighbours are contiguous, so equal lists have equal
\* representations.
RECURSIVE Count(_)
Count(runs) ==
    IF runs = <<>> THEN 0 ELSE Head(runs).n + Count(Tail(runs))

\* list.extend (client.py:97)
Extend(acc, runs) ==
    IF runs = <<>> THEN acc
    ELSE IF acc = <<>> THEN runs
    ELSE LET last == acc[Len(acc)]
             r    == Head(runs)
         IN  IF last.first + last.n = r.first
             THEN SubSeq(acc, 1, Len(acc) - 1)
                  \o <<[first |-> last.first, n |-> last.n + r.n]>>
                  \o Tail(runs)
             ELSE acc \o runs

\* The records of the k-th page served: n records numbered from the page's
\* offset, as the backend of tests/test_client.py numbers them.
Items(k, n) ==
    IF n = 0 THEN <<>> ELSE <<[first |-> (k - 1) * PAGE_SIZE + 1, n |-> n]>>

\* data.get(results_key, [])
Results(body, k) == IF body.hasResults THEN Items(k, body.n) ELSE <<>>

\* Mutant: a page without total leaves the total open
TotalOpenWhenMissing(body, count) ==
    IF body.hasPaging /\ body.hasTotal THEN body.total ELSE count + 1

\* paging.get("total", len(all_results)) over data.get("paging", {})
Total(body, count) ==
    IF body.hasPaging /\ body.hasTotal THEN body.total ELSE count

\* Mutant: the once-only flag is not consulted
ShouldWarnEveryPage(total, emitted) ==
    total > PAGINATION_WARNING_THRESHOLD

\* Mutant: the threshold itself already warns
ShouldWarnAtThreshold(total, emitted) ==
    total >= PAGINATION_WARNING_THRESHOLD /\ ~emitted

\* client.py:102
ShouldWarn(total, emitted) ==
    total > PAGINATION_WARNING_THRESHOLD /\ ~emitted

\* Mutant: the count has to pass the total, not reach it
ShouldStopStrict(count, total, results) ==
    count > total \/ results = <<>>

\* Mutant: an empty page does not end the loop
ShouldStopNoEmpty(count, total, results) ==
    count >= total

\* Mutant: only an empty page ends the loop
ShouldStopOnEmptyOnly(count, total, results) ==
    results = <<>>

\* Mutant: a page shorter than PAGE_SIZE is taken for the last one
ShouldStopShortPage(count, total, results) ==
    count >= total \/ Count(results) < PAGE_SIZE

\* client.py:113
ShouldStop(count, total, results) ==
    count >= total \/ results = <<>>

(* Dicts (request parameters, measure mappings)                              *)

\* A dict is the sequence of its items in insertion order, keys distinct.
Item(k, v) == [k |-> k, v |-> v]

HasKey(d, k) == \E i \in 1..Len(d) : d[i].k = k

Lookup(d, k) == d[CHOOSE i \in 1..Len(d) : d[i].k = k].v

\* Mutant: a key already present keeps its first value
DictSetKeepFirst(d, k, v) ==
    IF HasKey(d, k) THEN d ELSE Append(d, Item(k, v))

\* d[k] = v: a key already present keeps its place and takes the new value
DictSet(d, k, v) ==
    IF HasKey(d, k)
    THEN [i \in 1..Len(d) |-> IF d[i].k = k THEN Item(k, v) ELSE d[i]]
    ELSE Append(d, Item(k, v))

----------------------------------------------------------------------------
(* SonarClient.get_paginated: results and request log                       *)

NoResult ==
    [kind |-> "none", error |-> "none", status |-> 0, value |-> <<>>,
     body |-> EmptyBody]

\* Mutant: a failing request ends the fetch with what was accumulated
PropagatePartial(res, acc) ==
    [kind |-> "returned", error |-> "none", status |-> 0, value |-> acc,
     body |-> EmptyBody]

\* Mutant: every failure is handed on as the base client error
PropagateTranslated(res, acc) ==
    [kind |-> "raised", error |-> "SonarClientError", status |-> res.status,
     value |-> <<>>, body |-> EmptyBody]

\* An exception of _request leaves get_paginated through client.py:94, which
\* has no handler: the caller gets the exception and nothing else.
Propagate(res, acc) ==
    [kind |-> "raised", error |-> res.error, status |-> res.status,
     value |-> <<>>, body |-> EmptyBody]

\* return all_results (client.py:118)
ReturnAll(acc) ==
    [kind |-> "returned", error |-> "none", status |-> 0, value |-> acc,
     body |-> EmptyBody]

\* Mutant: the caller's own "ps" and "p" win over the fetcher's
PageParamsCallerWins(caller, k) ==
    LET withPs == IF HasKey(caller, "ps") THEN caller
                  ELSE Append(caller, Item("ps", PAGE_SIZE))
    IN  IF HasKey(withPs, "p") THEN withPs ELSE Append(withPs, Item("p", k))

\* page_params = {**params, "ps": PAGE_SIZE, "p": page} (client.py:93)
PageParams(caller, k) == DictSet(DictSet(caller, "ps", PAGE_SIZE), "p", k)

\* One request as the transport saw it: its path, the query it carried, what the
\* transport handed back, what _request made of it, and whether the
\* iteration that issued it called warnings.warn.
LogEntry(ep, query, warned, t, res) ==
    [endpoint |-> ep, query |-> query, warned |-> warned, t |-> t,
     kind |-> res.kind, error |-> res.error, status |-> res.status]

\* One iteration of the while loop (client.py:92-116), the transport handing
\* back t.
PageStep(t) ==
    LET res     == Request(t)
        results == Results(res.body, page)
        acc     == Extend(all_results, results)
        total   == Total(res.body, Count(acc))
        warn    == ShouldWarn(total, warning_emitted)
    IN  /\ log' = Append(log, LogEntry(endpoint, PageParams(params, page),
                                        res.kind = "returned" /\ warn, t, res))
        /\ IF res.kind = "raised"
           THEN /\ result' = Propagate(res, all_results)
                /\ pc' = result'.kind
                /\ UNCHANGED <<all_results, page, warning_emitted, warnings>>
           ELSE /\ all_results' = acc
                /\ warnings' = IF warn THEN warnings + 1 ELSE warnings
                /\ warning_emitted' = (warning_emitted \/ warn)
                /\ IF ShouldStop(Count(acc), total, results)
                   THEN /\ pc' = "returned"
                        /\ result' = ReturnAll(acc)
                        /\ page' = page
                   ELSE /\ pc' = "running"
                        /\ result' = result
                        /\ page' = page + 1

\* Query parameters a caller passes: none, or a filter together with its own
\* "ps" and "p" (reports/coverage.py:161-167 passes a "ps" of its own).
CallerParams ==
    {<<>>, <<Item("q", 1), Item("ps", 100), Item("p", 7)>>}

\* A caller invokes get_paginated: the locals of client.py:88-90.
CallGetPaginated ==
    /\ pc \in {"idle", "returned", "raised"}
    /\ pc' = "running"
    /\ op' = "get_paginated"
    /\ all_results' = <<>>
    /\ page' = 1
    /\ warning_emitted' = FALSE
    /\ warnings' = 0
    /\ prev_warnings' = warnings
    /\ endpoint' = "/api/issues/search"
    /\ params' \in CallerParams
    /\ log' = <<>>
    /\ result' = NoResult
    /\ UNCHANGED <<normVars, configVars, builderVars>>

FetchPage ==
    /\ pc = "running"
    /\ op = "get_paginated"
    /\ Len(log) < MaxRequests
    /\ \E t \in TransportOutcomes : PageStep(t)
    /\ UNCHANGED <<op, prev_warnings, endpoint, params>>
    /\ UNCHANGED <<normVars, configVars, builderVars>>

\* SonarClient.get (client.py:57-66) called without parameters: one request
\* carrying params or {}, its outcome handed on.
Get ==
    /\ pc \in {"idle", "returned", "raised"}
    /\ \E t \in TransportOutcomes :
         LET res == Request(t)
         IN  /\ endpoint' = "/api/measures/component"
             /\ params' = <<>>
             /\ log' = <<LogEntry(endpoint', <<>>, FALSE, t, res)>>
             /\ pc' = res.kind
             /\ result' = [kind |-> res.kind, error |-> res.error,
                           status |-> res.status, value |-> <<>>,
                           body |-> res.body]
    /\ op' = "get"
    /\ all_results' = <<>>
    /\ page' = 1
    /\ warning_emitted' = FALSE
    /\ warnings' = 0
    /\ prev_warnings' = warnings
    /\ UNCHANGED <<normVars, configVars, builderVars>>

ClientIdle ==
    /\ pc = "idle"
    /\ op = "none"
    /\ all_results = <<>>
    /\ page = 1
    /\ warning_emitted = FALSE
    /\ warnings = 0
    /\ prev_warnings = 0
    /\ endpoint = ""
    /\ params = <<>>
    /\ log = <<>>
    /\ result = NoResult

ClientNext == CallGetPaginated \/ FetchPage \/ Get

----------------------------------------------------------------------------
(* JSON values of a measure (reports/coverage.py)                           *)

\* Strings are sequences of one-character strings, so that float() and the
\* key slicing of _strip_new_prefix can look at their characters.
\* A finite number is m * 10^e with m not divisible by 10 (m = 0, e = 0 for
\* zero); within the bounds of this model no two such numbers share a double.
JAbsent == [type |-> "absent", s |-> <<>>, m |-> 0, e |-> 0]
JNull == [type |-> "null", s |-> <<>>, m |-> 0, e |-> 0]
JStr(s) == [type |-> "str", s |-> s, m |-> 0, e |-> 0]
JNum(m, e) == [type |-> "num", s |-> <<>>, m |-> m, e |-> e]
JList == [type |-> "list", s |-> <<>>, m |-> 0, e |-> 0]

\* dict.get(key): a missing key reads as None
IsNone(j) == j.type \in {"absent", "null"}

PAbsent == [type |-> "absent", value |-> JAbsent]
PNull == [type |-> "null", value |-> JAbsent]
PNotDict == [type |-> "str", value |-> JAbsent]
PDict(v) == [type |-> "dict", value |-> v]

Measure(v, p) == [value |-> v, period |-> p]

----------------------------------------------------------------------------
(* float(str), as _parse_value uses it (reports/coverage.py:59)             *)

MaxStrLen == 3       \* longest value string enumerated over Alphabet

Digits == {"0", "1", "2", "3", "4", "5", "6", "7", "8", "9"}

DigitVal(c) ==
    CASE c = "0" -> 0 [] c = "1" -> 1 [] c = "2" -> 2 [] c = "3" -> 3
      [] c = "4" -> 4 [] c = "5" -> 5 [] c = "6" -> 6 [] c = "7" -> 7
      [] c = "8" -> 8 [] c = "9" -> 9

LowerChar(c) ==
    CASE c = "I" -> "i" [] c = "N" -> "n" [] c = "F" -> "f" [] c = "A" -> "a"
      [] c = "T" -> "t" [] c = "Y" -> "y" [] c = "E" -> "e" [] OTHER -> c

Lower(s) == [i \in 1..Len(s) |-> LowerChar(s[i])]

IsSpace(c) == c \in {" ", "\t", "\n"}

RECURSIVE LStrip(_)
LStrip(s) == IF s # <<>> /\ IsSpace(Head(s)) THEN LStrip(Tail(s)) ELSE s

RECURSIVE RStrip(_)
RStrip(s) ==
    IF s # <<>> /\ IsSpace(s[Len(s)]) THEN RStrip(SubSeq(s, 1, Len(s) - 1))
    ELSE s

RECURSIVE DigitPrefixLen(_)
DigitPrefixLen(s) ==
    IF s # <<>> /\ Head(s) \in Digits THEN 1 + DigitPrefixLen(Tail(s)) ELSE 0

RECURSIVE DigitsVal(_)
DigitsVal(s) ==
    IF s = <<>> THEN 0
    ELSE 10 * DigitsVal(SubSeq(s, 1, Len(s) - 1)) + DigitVal(s[Len(s)])

RECURSIVE Pow10(_)
Pow10(k) == IF k = 0 THEN 1 ELSE 10 * Pow10(k - 1)

RECURSIVE NumDigits(_)
NumDigits(m) == IF m < 10 THEN 1 ELSE 1 + NumDigits(m \div 10)

Abs(m) == IF m < 0 THEN -m ELSE m

\* A float: kind is "fin", "inf" or "nan"; ok is false when the conversion
\* raised ValueError (a string that is no number) or TypeError (no string or
\* number at all).
Float(kind, m, e) == [ok |-> TRUE, err |-> "none", kind |-> kind, m |-> m, e |-> e]
NoFloat(err) == [ok |-> FALSE, err |-> err, kind |-> "nan", m |-> 0, e |-> 0]

RECURSIVE Normal(_, _)
Normal(m, e) ==
    IF m = 0 THEN Float("fin", 0, 0)
    ELSE IF m % 10 = 0 THEN Normal(m \div 10, e + 1)
    ELSE Float("fin", m, e)

\* Binary64 range: a magnitude of 1e309 or more is inf, one below 1e-324 is 0.
DBL_MAX_10_EXP == 308
DBL_MIN_10_EXP == -324

Rounded(m, e) ==
    IF m = 0 THEN Float("fin", 0, 0)
    ELSE IF NumDigits(Abs(m)) + e > DBL_MAX_10_EXP + 1
         THEN Float("inf", IF m < 0 THEN -1 ELSE 1, 0)
    ELSE IF NumDigits(Abs(m)) + e < DBL_MIN_10_EXP + 1 THEN Float("fin", 0, 0)
    ELSE Normal(m, e)

\* digits [. digits] [e [sign] digits], at least one digit before the exponent
ParseDecimal(u, neg) ==
    LET ni     == DigitPrefixLen(u)
        r1     == SubSeq(u, ni + 1, Len(u))
        hasDot == r1 # <<>> /\ Head(r1) = "."
        r2     == IF hasDot THEN Tail(r1) ELSE r1
        nf     == IF hasDot THEN DigitPrefixLen(r2) ELSE 0
        r3     == SubSeq(r2, nf + 1, Len(r2))
        hasExp == r3 # <<>> /\ Head(r3) \in {"e", "E"}
        r4     == IF hasExp THEN Tail(r3) ELSE r3
        expSgn == hasExp /\ r4 # <<>> /\ Head(r4) \in {"+", "-"}
        expNeg == expSgn /\ Head(r4) = "-"
        r5     == IF expSgn THEN Tail(r4) ELSE r4
        ne     == IF hasExp THEN DigitPrefixLen(r5) ELSE 0
        r6     == SubSeq(r5, ne + 1, Len(r5))
        digs   == SubSeq(u, 1, ni) \o SubSeq(r2, 1, nf)
        x      == DigitsVal(SubSeq(r5, 1, ne))
        mant   == DigitsVal(digs)
    IN  IF ni + nf >= 1 /\ (hasExp => ne >= 1) /\ r6 = <<>>
        THEN Rounded(IF neg THEN -mant ELSE mant,
                     (IF expNeg THEN -x ELSE x) - nf)
        ELSE NoFloat("ValueError")

ParseFloat(s) ==
    LET t      == RStrip(LStrip(s))
        signed == t # <<>> /\ Head(t) \in {"+", "-"}
        neg    == signed /\ Head(t) = "-"
        u      == IF signed THEN Tail(t) ELSE t
        lu     == Lower(u)
    IN  IF lu = <<"i", "n", "f">>
           \/ lu = <<"i", "n", "f", "i", "n", "i", "t", "y">>
        THEN Float("inf", IF neg THEN -1 ELSE 1, 0)
        ELSE IF lu = <<"n", "a", "n">> THEN Float("nan", 0, 0)
        ELSE ParseDecimal(u, neg)

\* float(val) for a JSON value that is not None
ToFloat(j) ==
    IF j.type = "str" THEN ParseFloat(j.s)
    ELSE IF j.type = "num" THEN Rounded(j.m, j.e)
    ELSE NoFloat("TypeError")

\* int(f): truncation toward zero; ValueError for nan, OverflowError for inf
IntOf(f) ==
    IF f.kind = "nan" THEN NoFloat("ValueError")
    ELSE IF f.kind = "inf" THEN NoFloat("OverflowError")
    ELSE IF f.e >= 0 THEN f
    ELSE IF -f.e >= NumDigits(Abs(f.m)) THEN Float("fin", 0, 0)
    ELSE LET q == Abs(f.m) \div Pow10(-f.e)
         IN  Normal(IF f.m < 0 THEN -q ELSE q, 0)

----------------------------------------------------------------------------
(* _parse_value (reports/coverage.py:45-63)                                 *)

PNone == [kind |-> "none", m |-> 0, e |-> 0, raw |-> JAbsent, error |-> "none"]
PInt(f) == [kind |-> "int", m |-> f.m, e |-> f.e, raw |-> JAbsent, error |-> "none"]
PFloat(f) == [kind |-> "float", m |-> f.m, e |-> f.e, raw |-> JAbsent, error |-> "none"]
PRaw(j) == [kind |-> "raw", m |-> 0, e |-> 0, raw |-> j, error |-> "none"]
PRaised(err) == [kind |-> "raised", m |-> 0, e |-> 0, raw |-> JAbsent, error |-> err]
Pending == [kind |-> "pending", m |-> 0, e |-> 0, raw |-> JAbsent, error |-> "none"]

\* Mutant: the legacy period encoding is read first
SelectValPeriodFirst(raw) ==
    IF raw.period.type = "dict" /\ ~IsNone(raw.period.value)
    THEN raw.period.value
    ELSE raw.value

\* coverage.py:52-55
SelectVal(raw) ==
    IF ~IsNone(raw.value) THEN raw.value
    ELSE IF raw.period.type = "dict" THEN raw.period.value
    ELSE JNull

\* Mutant: every number is truncated to an integer
WholeOrFloatTruncating(f, i) == PInt(i)

\* coverage.py:61: int(f) if f == int(f) else f
WholeOrFloat(f, i) == IF f = i THEN PInt(i) ELSE PFloat(f)

\* coverage.py:56-63
Convert(val) ==
    IF IsNone(val) THEN PNone
    ELSE LET f == ToFloat(val)
             i == IntOf(f)
         IN  IF ~f.ok THEN PRaw(val)
             ELSE IF ~i.ok
                  THEN IF i.err \in {"ValueError", "TypeError"}
                       THEN PRaw(val)
                       ELSE PRaised(i.err)
             ELSE WholeOrFloat(f, i)

ParseValue(raw) == Convert(SelectVal(raw))

\* The value strings the model enumerates: every string over Alphabet up to
\* MaxStrLen characters, and the strings of the tests and of the documentation.
Alphabet == {"0", "5", "8", ".", "-", "e", " "}

StringsUpTo(n) == UNION {[1..k -> Alphabet] : k \in 0..n}

NamedStrings ==
    { <<"8", "8", ".", "0">>, <<"2", "0", "0">>, <<"8", "5", ".", "5">>,
      <<"7", "7", ".", "3">>, <<"8", "0", ".", "5">>, <<"-", "0", ".", "0">>,
      <<"N", "a", "N">>, <<"n", "a", "n">>, <<"i", "n", "f">>,
      <<"-", "i", "n", "f">>, <<"I", "n", "f", "i", "n", "i", "t", "y">>,
      <<"1", "e", "9", "9", "9">>, <<"5", "e", "-", "9", "9", "9">>,
      <<"a", "b", "c">>, <<"8", "8", ".", "0", "x">> }

ValueStrings == StringsUpTo(MaxStrLen) \cup NamedStrings

JsonValues ==
    {JAbsent, JNull, JList, JNum(88, 0), JNum(855, -1)}
    \cup {JStr(s) : s \in ValueStrings}

PeriodValues ==
    {JAbsent, JNull, JStr(<<"7", "7", ".", "3">>), JStr(<<"5">>),
     JStr(<<"i", "n", "f">>), JStr(<<"x">>), JStr(<<>>)}

Periods == {PAbsent, PNull, PNotDict} \cup {PDict(v) : v \in PeriodValues}

Measures ==
    {Measure(v, p) : v \in JsonValues, p \in Periods}
    \cup {Measure(v, PDict(w)) : v \in {JAbsent, JNull}, w \in JsonValues}

ParseIdle ==
    /\ measure = Measure(JAbsent, PAbsent)
    /\ parsed = Pending

ParseInit ==
    /\ measure \in Measures
    /\ parsed = Pending

----------------------------------------------------------------------------
(* _strip_new_prefix (reports/coverage.py:71-73)                            *)

NewPrefix == <<"n", "e", "w", "_">>

\* k.startswith("new_")
StartsWithNew(k) == Len(k) >= Len(NewPrefix) /\ SubSeq(k, 1, Len(NewPrefix)) = NewPrefix

\* k[4:] if k.startswith("new_") else k
StripKey(k) ==
    IF StartsWithNew(k) THEN SubSeq(k, Len(NewPrefix) + 1, Len(k)) ELSE k

\* The dict comprehension of coverage.py:73, item by item (the one-element
\* sets make each step work on the dict built so far, not on its expression)
RECURSIVE StripInto(_, _)
StripInto(acc, d) ==
    IF d = <<>> THEN acc
    ELSE CHOOSE r \in {StripInto(a, t) :
                          a \in {DictSet(acc, StripKey(Head(d).k), Head(d).v)},
                          t \in {Tail(d)}} : TRUE

StripNewPrefix(d) == StripInto(<<>>, d)

MaxKeys == 3         \* most items of a dict handed to _strip_new_prefix
NumValues == 2       \* distinct values the items may carry

KeyNames ==
    { <<"x">>, <<"n", "e", "w", "_", "x">>,
      <<"n", "e", "w", "_", "n", "e", "w", "_", "x">>,
      <<"n", "e", "w", "_">>, <<>>, <<"n", "e", "w">> }

Dicts ==
    UNION { { d \in [1..n -> {Item(k, v) : k \in KeyNames, v \in 1..NumValues}] :
                \A i, j \in 1..n : i # j => d[i].k # d[j].k } : n \in 0..MaxKeys }

NotStripped == [done |-> FALSE, d |-> <<>>]

StripIdle ==
    /\ mapping = <<>>
    /\ stripped = NotStripped

StripInit ==
    /\ mapping \in Dicts
    /\ stripped = NotStripped

----------------------------------------------------------------------------
(* Actions of the normaliser                                                *)

ParseValueCall ==
    /\ parsed = Pending
    /\ parsed' = ParseValue(measure)
    /\ UNCHANGED <<measure, mapping, stripped>>
    /\ UNCHANGED <<clientVars, configVars, builderVars>>

StripNewPrefixCall ==
    /\ ~stripped.done
    /\ stripped' = [done |-> TRUE, d |-> StripNewPrefix(mapping)]
    /\ UNCHANGED <<measure, parsed, mapping>>
    /\ UNCHANGED <<clientVars, configVars, builderVars>>

----------------------------------------------------------------------------
(* Config.resolve_project (config.py:38-52)                                 *)

\* str.join: the parts with the separator between neighbours
RECURSIVE Join(_, _)
Join(parts, sep) ==
    IF Len(parts) <= 1 THEN parts
    ELSE <<Head(parts), sep>> \o Join(Tail(parts), sep)

\* The f-string of config.py:49-51 as the sequence of its pieces, available
\* being ", ".join(self.projects.keys()) or "(none configured)"
NotFoundMessage(d, n) ==
    LET joined    == Join([i \in 1..Len(d) |-> d[i].k], ", ")
        available == IF joined = <<>> THEN <<"(none configured)">> ELSE joined
    IN  <<"Project '", n, "' not found. Available aliases: ">> \o available

NotResolved ==
    [kind |-> "none", error |-> "none", value |-> "", message |-> <<>>]

\* Mutant: the raw project key is tried before the alias
ResolveProjectKeyFirst(d, n) ==
    IF \E i \in 1..Len(d) : d[i].v = n
    THEN [kind |-> "returned", error |-> "none", value |-> n,
          message |-> <<>>]
    ELSE IF HasKey(d, n)
    THEN [kind |-> "returned", error |-> "none", value |-> Lookup(d, n),
          message |-> <<>>]
    ELSE [kind |-> "raised", error |-> "ProjectNotFoundError", value |-> "",
          message |-> NotFoundMessage(d, n)]

ResolveProject(d, n) ==
    IF HasKey(d, n)
    THEN [kind |-> "returned", error |-> "none", value |-> Lookup(d, n),
          message |-> <<>>]
    ELSE IF \E i \in 1..Len(d) : d[i].v = n
    THEN [kind |-> "returned", error |-> "none", value |-> n,
          message |-> <<>>]
    ELSE [kind |-> "raised", error |-> "ProjectNotFoundError", value |-> "",
          message |-> NotFoundMessage(d, n)]

\* Aliases and project keys are drawn from the same names, so that an alias
\* can be spelled like the key of another alias.
ProjectNames == {"wcs", "api", "ch.wcs"}

\* Config.projects is a dict: its aliases are distinct
Configs ==
    {d \in UNION {[1..n -> {Item(k, v) : k \in ProjectNames, v \in ProjectNames}] :
                    n \in 0..MaxAliases} :
        \A i, j \in 1..Len(d) : d[i].k = d[j].k => i = j}

ConfigIdle ==
    /\ projects = <<>>
    /\ name = ""
    /\ resolved = NotResolved

ConfigInit ==
    /\ projects \in Configs
    /\ name \in ProjectNames \cup {"unknown-project"}
    /\ resolved = NotResolved

ResolveProjectCall ==
    /\ resolved = NotResolved
    /\ resolved' = ResolveProject(projects, name)
    /\ UNCHANGED <<projects, name>>
    /\ UNCHANGED <<clientVars, normVars, builderVars>>

----------------------------------------------------------------------------
(* Report builders: what every builder starts from                          *)

NoReport == [kind |-> "none", error |-> "none", dict |-> <<>>]

BuilderIdle ==
    /\ builder = [fn |-> "none", project_key |-> "", branch |-> "",
                  pr_id |-> ""]
    /\ catalog = <<>>
    /\ report = NoReport
    /\ uncovered_files = <<>>
    /\ files_report = <<>>

----------------------------------------------------------------------------
(* get_coverage and get_pr_coverage (reports/coverage.py:80-135)            *)

BRANCH_METRICS ==
    << <<"c", "o", "v", "e", "r", "a", "g", "e">>,
       <<"l", "i", "n", "e", "_", "c", "o", "v", "e", "r", "a", "g", "e">>,
       <<"b", "r", "a", "n", "c", "h", "_", "c", "o", "v", "e", "r", "a", "g", "e">>,
       <<"l", "i", "n", "e", "s", "_", "t", "o", "_", "c", "o", "v", "e", "r">>,
       <<"u", "n", "c", "o", "v", "e", "r", "e", "d", "_", "l", "i", "n", "e", "s">>,
       <<"u", "n", "c", "o", "v", "e", "r", "e", "d", "_", "c", "o", "n", "d", "i", "t", "i", "o", "n", "s">>,
       <<"c", "o", "n", "d", "i", "t", "i", "o", "n", "s", "_", "t", "o", "_", "c", "o", "v", "e", "r">> >>

NEW_CODE_METRICS ==
    << <<"n", "e", "w", "_", "c", "o", "v", "e", "r", "a", "g", "e">>,
       <<"n", "e", "w", "_", "l", "i", "n", "e", "_", "c", "o", "v", "e", "r", "a", "g", "e">>,
       <<"n", "e", "w", "_", "b", "r", "a", "n", "c", "h", "_", "c", "o", "v", "e", "r", "a", "g", "e">>,
       <<"n", "e", "w", "_", "l", "i", "n", "e", "s", "_", "t", "o", "_", "c", "o", "v", "e", "r">>,
       <<"n", "e", "w", "_", "u", "n", "c", "o", "v", "e", "r", "e", "d", "_", "l", "i", "n", "e", "s">>,
       <<"n", "e", "w", "_", "u", "n", "c", "o", "v", "e", "r", "e", "d", "_", "c", "o", "n", "d", "i", "t", "i", "o", "n", "s">>,
       <<"n", "e", "w", "_", "c", "o", "n", "d", "i", "t", "i", "o", "n", "s", "_", "t", "o", "_", "c", "o", "v", "e", "r">> >>

MaxMeasures == 2     \* most measures of a component in a backend response

\* The measures a backend may return: a declared current-code metric, two
\* declared new-code metrics and one nobody asked for, each with a value
\* _parse_value reads as a float, as an int, from the legacy period, or as inf.
CoverageMeasures ==
    {[metric |-> k, value |-> m.value, period |-> m.period] :
        k \in {<<"c", "o", "v", "e", "r", "a", "g", "e">>,
               <<"n", "e", "w", "_", "c", "o", "v", "e", "r", "a", "g", "e">>,
               <<"n", "e", "w", "_", "u", "n", "c", "o", "v", "e", "r", "e", "d", "_", "l", "i", "n", "e", "s">>,
               <<"n", "c", "l", "o", "c">>},
        m \in {Measure(JStr(<<"8", "5", ".", "5">>), PAbsent),
               Measure(JStr(<<"2", "0", "0">>), PAbsent),
               Measure(JAbsent, PDict(JStr(<<"7", "7", ".", "3">>))),
               Measure(JStr(<<"i", "n", "f">>), PAbsent)}}

\* The JSON bodies of /api/measures/component: without "component", with a
\* component without "measures", with a list of measures
CoverageBodies ==
    {[hasComponent |-> FALSE, hasMeasures |-> FALSE, measures |-> <<>>],
     [hasComponent |-> TRUE, hasMeasures |-> FALSE, measures |-> <<>>]}
    \cup {[hasComponent |-> TRUE, hasMeasures |-> TRUE, measures |-> ms] :
            ms \in UNION {[1..n -> CoverageMeasures] : n \in 0..MaxMeasures}}

CoverageOutcomes ==
    {Transport("Timeout", 0, FALSE, EmptyBody),
     Transport("none", 401, FALSE, EmptyBody),
     Transport("none", 404, FALSE, EmptyBody),
     Transport("none", 500, FALSE, EmptyBody),
     Transport("none", 200, FALSE, EmptyBody)}
    \cup {Transport("none", 200, TRUE, b) : b \in CoverageBodies}

\* A dict comprehension over items: a later item of the same key replaces the
\* value of an earlier one
RECURSIVE DictOf(_)
DictOf(items) ==
    IF items = <<>> THEN <<>>
    ELSE DictSet(DictOf(SubSeq(items, 1, Len(items) - 1)),
                 items[Len(items)].k, items[Len(items)].v)

\* _measures_to_dict (coverage.py:66-68); the first _parse_value that raises
\* ends the comprehension with its exception.  vals is bound to the list of
\* the parsed values.
MeasuresToDict(ms) ==
    CHOOSE r \in
      { LET bad == {i \in 1..Len(ms) : vals[i].kind = "raised"}
        IN  IF bad # {}
            THEN [raised |-> TRUE, d |-> <<>>,
                  error |-> vals[CHOOSE i \in bad : \A j \in bad : i <= j].error]
            ELSE [raised |-> FALSE, error |-> "none",
                  d |-> DictOf([i \in 1..Len(ms) |->
                                   Item(ms[i].metric, vals[i])])]
        : vals \in {[i \in 1..Len(ms) |-> ParseValue(ms[i])]} } : TRUE

\* {k: measures.get(k) for k in names} (coverage.py:97-98, 126)
Section(names, d) ==
    [i \in 1..Len(names) |->
        Item(names[i], IF HasKey(d, names[i]) THEN Lookup(d, names[i])
                       ELSE PNone)]

\* params (coverage.py:89-94, 118-122); metricKeys is kept as the pieces of
\* the joined string
CoverageParams(b) ==
    IF b.fn = "get_coverage"
    THEN <<Item("component", b.project_key), Item("branch", b.branch),
           Item("metricKeys",
                Join(BRANCH_METRICS \o NEW_CODE_METRICS, <<",">>))>>
    ELSE <<Item("component", b.project_key), Item("pullRequest", b.pr_id),
           Item("metricKeys", Join(NEW_CODE_METRICS, <<",">>))>>

\* What the builder does with the data client.get returned
\* (coverage.py:95-109, 123-135), measures being bound to the outcome of
\* _measures_to_dict; an exception of _parse_value leaves the builder as it is.
CoverageReport(b, data) ==
    CHOOSE r \in
      { IF measures.raised
        THEN [kind |-> "raised", error |-> measures.error, dict |-> <<>>]
        ELSE IF b.fn = "get_coverage"
        THEN [kind |-> "returned", error |-> "none",
              dict |-> <<Item("report_type", "coverage"),
                         Item("project_key", b.project_key),
                         Item("branch", b.branch),
                         Item("generated_at", "now"),
                         Item("metrics", Section(BRANCH_METRICS, measures.d)),
                         Item("new_code",
                              StripNewPrefix(Section(NEW_CODE_METRICS,
                                                     measures.d)))>>]
        ELSE [kind |-> "returned", error |-> "none",
              dict |-> <<Item("report_type", "pr_coverage"),
                         Item("project_key", b.project_key),
                         Item("pull_request", b.pr_id),
                         Item("generated_at", "now"),
                         Item("new_code",
                              StripNewPrefix(Section(NEW_CODE_METRICS,
                                                     measures.d)))>>]
        : measures \in
            {MeasuresToDict(IF data.hasComponent /\ data.hasMeasures
                            THEN data.measures ELSE <<>>)} } : TRUE

\* A coverage builder from its call to its end: one client.get, then the
\* report
CoverageCall(b) ==
    /\ builder' = b
    /\ \E t \in CoverageOutcomes :
         LET res == Request(t)
         IN  /\ endpoint' = "/api/measures/component"
             /\ params' = CoverageParams(b)
             /\ log' = <<LogEntry(endpoint', params', FALSE, t, res)>>
             /\ pc' = res.kind
             /\ result' = [kind |-> res.kind, error |-> res.error,
                           status |-> res.status, value |-> <<>>,
                           body |-> res.body]
             /\ report' = IF res.kind = "raised"
                          THEN [kind |-> "raised", error |-> res.error,
                                dict |-> <<>>]
                          ELSE CoverageReport(b, res.body)
    /\ op' = "get"
    /\ UNCHANGED <<all_results, page, warning_emitted, warnings,
                   prev_warnings, catalog, uncovered_files, files_report>>
    /\ UNCHANGED <<normVars, configVars>>

GetCoverage ==
    /\ report = NoReport
    /\ CoverageCall([fn |-> "get_coverage", project_key |-> "ch.wcs",
                     branch |-> "main", pr_id |-> ""])

GetPrCoverage ==
    /\ report = NoReport
    /\ CoverageCall([fn |-> "get_pr_coverage", project_key |-> "ch.wcs",
                     branch |-> "", pr_id |-> "42"])

----------------------------------------------------------------------------
(* get_pr_issues, get_new_issues, get_all_issues (reports/issues.py)        *)

ISSUE_FIELDS ==
    {"key", "rule", "severity", "type", "component", "line", "message",
     "effort", "status", "assignee", "tags", "creationDate"}

SEVERITIES == {"BLOCKER", "CRITICAL", "MAJOR", "MINOR", "INFO"}

TYPES == {"BUG", "VULNERABILITY", "CODE_SMELL"}

CatalogSize == 2     \* distinct issues the backend holds in the model

\* A field of an issue holds None (a JSON null, or what dict.get gives for a
\* missing key) or a JSON value, named by a string
None == [some |-> FALSE, v |-> ""]

Str(s) == [some |-> TRUE, v |-> s]

\* Raw issues a backend may hold: with all twelve fields, with a field nobody
\* asked for, with severity and type outside the enumerations, with severity
\* null and type missing; in each status
RawIssues ==
    {[key |-> Str("i1"), rule |-> Str("java:S1234"), severity |-> Str("MAJOR"),
      type |-> Str("BUG"), component |-> Str("ch.wcs:src/Foo.java"),
      line |-> Str("42"), message |-> Str("Some issue"),
      effort |-> Str("5min"), status |-> Str("OPEN"), assignee |-> None,
      tags |-> Str("[]"), creationDate |-> Str("2026-02-23T10:00:00+0000")],
     [key |-> Str("i2"), severity |-> Str("BLOCKER"),
      type |-> Str("CODE_SMELL"), status |-> Str("CONFIRMED"),
      unexpected_field |-> Str("should_be_dropped")],
     [key |-> Str("i3"), severity |-> Str("URGENT"),
      type |-> Str("SECURITY_HOTSPOT"), status |-> Str("ACCEPTED")],
     [key |-> Str("i4"), severity |-> None, status |-> Str("REOPENED"),
      author |-> Str("jane")]}

\* What the transport hands back for a page of /api/issues/search: a failure,
\* or a body with up to two issues that declares a total or none
IssueOutcomes ==
    {Transport("Timeout", 0, FALSE, EmptyBody),
     Transport("none", 401, FALSE, EmptyBody),
     Transport("none", 500, FALSE, EmptyBody),
     Transport("none", 200, TRUE, JsonBody(FALSE, 0, TRUE, TRUE, 3))}
    \cup {Transport("none", 200, TRUE, JsonBody(TRUE, n, TRUE, TRUE, t)) :
            n \in 0..2, t \in {1, 2, 3, 4}}
    \cup {Transport("none", 200, TRUE, JsonBody(TRUE, n, TRUE, FALSE, 0)) :
            n \in 0..2}

\* The raw issues behind a list of runs: the backend's record number id is
\* the issue catalog[((id - 1) % Len(catalog)) + 1]
RECURSIVE RawRecords(_)
RawRecords(runs) ==
    IF runs = <<>> THEN <<>>
    ELSE [i \in 1..Head(runs).n |->
             catalog[((Head(runs).first + i - 2) % Len(catalog)) + 1]]
         \o RawRecords(Tail(runs))

\* Mutant: the fields the backend sent are kept as they are
ExtractIssueKeepAll(raw) ==
    [field \in ISSUE_FIELDS \cup DOMAIN raw |->
        IF field \in DOMAIN raw THEN raw[field] ELSE None]

\* _extract_issue (issues.py:83-85)
ExtractIssue(raw) ==
    [field \in ISSUE_FIELDS |->
        IF field \in DOMAIN raw THEN raw[field] ELSE None]

\* Mutant: total is the sum of the severity buckets
BuildSummaryTotalOfBuckets(issues) ==
    [total |-> Cardinality({i \in 1..Len(issues) :
                              \E s \in SEVERITIES : issues[i].severity = Str(s)}),
     by_severity |-> [s \in SEVERITIES |->
        Cardinality({i \in 1..Len(issues) : issues[i].severity = Str(s)})],
     by_type |-> [t \in TYPES |->
        Cardinality({i \in 1..Len(issues) : issues[i].type = Str(t)})]]

\* _build_summary (issues.py:88-104), called on extracted issues
BuildSummary(issues) ==
    [total |-> Len(issues),
     by_severity |-> [s \in SEVERITIES |->
        Cardinality({i \in 1..Len(issues) : issues[i].severity = Str(s)})],
     by_type |-> [t \in TYPES |->
        Cardinality({i \in 1..Len(issues) : issues[i].type = Str(t)})]]

\* _build_report (issues.py:107-121) with the arguments each builder passes
\* (issues.py:36-41, 53-58, 71-76); cleaned is bound to the extracted issues
BuildReport(b, issues) ==
    CHOOSE r \in
      { [kind |-> "returned", error |-> "none",
         dict |-> <<Item("report_type",
                         IF b.fn = "get_pr_issues" THEN <<"pr_issues">>
                         ELSE IF b.fn = "get_new_issues"
                         THEN <<"new_issues_", b.branch>>
                         ELSE <<"all_issues_", b.branch>>),
                    Item("project_key", b.project_key),
                    Item("generated_at", "now"),
                    IF b.fn = "get_pr_issues"
                    THEN Item("pull_request", b.pr_id)
                    ELSE Item("branch", b.branch),
                    Item("summary", BuildSummary(cleaned)),
                    Item("issues", cleaned)>>]
        : cleaned \in {[i \in 1..Len(issues) |-> ExtractIssue(issues[i])]} }
      : TRUE

\* Mutant: get_all_issues asks for the unresolved issues of every status
IssueParamsEveryStatus(b) ==
    IF b.fn = "get_pr_issues"
    THEN <<Item("componentKeys", b.project_key), Item("pullRequest", b.pr_id),
           Item("resolved", "false")>>
    ELSE IF b.fn = "get_new_issues"
    THEN <<Item("componentKeys", b.project_key), Item("branch", b.branch),
           Item("inNewCodePeriod", "true"), Item("resolved", "false")>>
    ELSE <<Item("componentKeys", b.project_key), Item("branch", b.branch),
           Item("resolved", "false")>>

\* params (issues.py:30-34, 46-51, 63-68)
IssueParams(b) ==
    IF b.fn = "get_pr_issues"
    THEN <<Item("componentKeys", b.project_key), Item("pullRequest", b.pr_id),
           Item("resolved", "false")>>
    ELSE IF b.fn = "get_new_issues"
    THEN <<Item("componentKeys", b.project_key), Item("branch", b.branch),
           Item("inNewCodePeriod", "true"), Item("resolved", "false")>>
    ELSE <<Item("componentKeys", b.project_key), Item("branch", b.branch),
           Item("resolved", "false"),
           Item("statuses", "OPEN,CONFIRMED,REOPENED")>>

\* A builder is called and enters get_paginated
StartPaginated(b, ep, query) ==
    /\ builder' = b
    /\ report' = [kind |-> "pending", error |-> "none", dict |-> <<>>]
    /\ pc' = "running"
    /\ op' = "get_paginated"
    /\ endpoint' = ep
    /\ params' = query
    /\ all_results' = <<>>
    /\ page' = 1
    /\ warning_emitted' = FALSE
    /\ warnings' = 0
    /\ prev_warnings' = warnings
    /\ log' = <<>>
    /\ result' = NoResult
    /\ UNCHANGED <<catalog, uncovered_files, files_report>>
    /\ UNCHANGED <<normVars, configVars>>

GetPrIssues ==
    /\ report = NoReport
    /\ \E b \in {[fn |-> "get_pr_issues", project_key |-> "ch.wcs",
                  branch |-> "", pr_id |-> "42"]} :
         StartPaginated(b, "/api/issues/search", IssueParams(b))

GetNewIssues ==
    /\ report = NoReport
    /\ \E b \in {[fn |-> "get_new_issues", project_key |-> "ch.wcs",
                  branch |-> "main", pr_id |-> ""]} :
         StartPaginated(b, "/api/issues/search", IssueParams(b))

GetAllIssues ==
    /\ report = NoReport
    /\ \E b \in {[fn |-> "get_all_issues", project_key |-> "ch.wcs",
                  branch |-> "main", pr_id |-> ""]} :
         StartPaginated(b, "/api/issues/search", IssueParams(b))

\* One page of the builder's get_paginated call; the page that ends the call
\* ends the builder too, with the report or with the exception of the request
IssuePage ==
    /\ builder.fn \in {"get_pr_issues", "get_new_issues", "get_all_issues"}
    /\ pc = "running"
    /\ Len(log) < MaxRequests
    /\ \E t \in IssueOutcomes : PageStep(t)
    /\ report' = IF pc' = "returned"
                 THEN BuildReport(builder, RawRecords(result'.value))
                 ELSE IF pc' = "raised"
                 THEN [kind |-> "raised", error |-> result'.error,
                       dict |-> <<>>]
                 ELSE report
    /\ UNCHANGED <<op, prev_warnings, endpoint, params, builder, catalog,
                   uncovered_files, files_report>>
    /\ UNCHANGED <<normVars, configVars>>

IssuesNext == GetPrIssues \/ GetNewIssues \/ GetAllIssues \/ IssuePage

----------------------------------------------------------------------------
(* get_uncovered_lines (reports/coverage.py:138-225)                        *)

\* The files the backend may hold. A measure is [metric, value]; a value of
\* JAbsent is a measure without the "value" key.
RawComponents ==
    {[key |-> "A", hasPath |-> TRUE, path |-> "src/A",
      measures |-> <<[metric |-> "lines_to_cover", value |-> JStr(<<"1", "0">>)],
                     [metric |-> "uncovered_lines", value |-> JStr(<<"3">>)]>>],
     [key |-> "B", hasPath |-> FALSE, path |-> "",
      measures |-> <<[metric |-> "uncovered_lines", value |-> JStr(<<"0">>)],
                     [metric |-> "lines_to_cover", value |-> JStr(<<"5">>)]>>],
     [key |-> "C", hasPath |-> TRUE, path |-> "src/C",
      measures |-> <<[metric |-> "lines_to_cover", value |-> JStr(<<"4">>)]>>],
     [key |-> "D", hasPath |-> FALSE, path |-> "",
      measures |-> <<[metric |-> "uncovered_lines", value |-> JStr(<<"2", ".", "9">>)],
                     [metric |-> "lines_to_cover", value |-> JAbsent]>>],
     [key |-> "E", hasPath |-> TRUE, path |-> "src/E",
      measures |-> <<[metric |-> "uncovered_lines", value |-> JStr(<<"x">>)],
                     [metric |-> "uncovered_lines", value |-> JStr(<<"7">>)]>>],
     [key |-> "F", hasPath |-> TRUE, path |-> "src/F",
      measures |-> <<[metric |-> "lines_to_cover", value |-> JStr(<<"8">>)],
                     [metric |-> "uncovered_lines",
                      value |-> JStr(<<"i", "n", "f">>)]>>]}

\* What the transport does with a request for a page of the component tree
TreeOutcomes ==
    {Transport("Timeout", 0, FALSE, EmptyBody),
     Transport("none", 404, FALSE, EmptyBody)}
    \cup {Transport("none", 200, TRUE, JsonBody(TRUE, n, TRUE, TRUE, 3)) :
            n \in 0..2}
    \cup {Transport("none", 200, TRUE, JsonBody(TRUE, n, TRUE, FALSE, 0)) :
            n \in 1..2}

\* What the transport does with a request for the lines of a file: a failure,
\* a body without "sources", or a list of lines. A line is the number with
\* the two hit counts it may carry; its code text is left out of the model.
SourceOutcomes ==
    {Transport("Timeout", 0, FALSE, EmptyBody),
     Transport("none", 500, FALSE, EmptyBody),
     Transport("none", 200, TRUE, [hasSources |-> FALSE, sources |-> <<>>]),
     Transport("none", 200, TRUE, [hasSources |-> TRUE, sources |->
        <<[line |-> 3, hasUt |-> TRUE, utLineHits |-> 2,
           hasLh |-> TRUE, lineHits |-> 0],
          [line |-> 1, hasUt |-> TRUE, utLineHits |-> 0,
           hasLh |-> FALSE, lineHits |-> 0],
          [line |-> 2, hasUt |-> TRUE, utLineHits |-> 1,
           hasLh |-> TRUE, lineHits |-> 1]>>]),
     Transport("none", 200, TRUE, [hasSources |-> TRUE, sources |->
        <<[line |-> 1, hasUt |-> FALSE, utLineHits |-> 0,
           hasLh |-> FALSE, lineHits |-> 0],
          [line |-> 2, hasUt |-> FALSE, utLineHits |-> 0,
           hasLh |-> TRUE, lineHits |-> 4]>>])}

\* _component_metric (coverage.py:240-248): int(float(m["value"])) of the
\* first measure of that metric, 0 for KeyError or ValueError, 0 without one;
\* any other exception leaves the function.
ComponentMetric(comp, metric) ==
    LET at == {i \in 1..Len(comp.measures) : comp.measures[i].metric = metric}
    IN  IF at = {} THEN [raised |-> FALSE, error |-> "none", n |-> 0]
        ELSE CHOOSE r \in
               { IF val.type = "absent"
                 THEN [raised |-> FALSE, error |-> "none", n |-> 0]
                 ELSE CHOOSE q \in
                        { IF i.ok
                          THEN [raised |-> FALSE, error |-> "none",
                                n |-> i.m * Pow10(i.e)]
                          ELSE IF i.err = "ValueError"
                          THEN [raised |-> FALSE, error |-> "none", n |-> 0]
                          ELSE [raised |-> TRUE, error |-> i.err, n |-> 0]
                          : i \in {IF f.ok THEN IntOf(f) ELSE f :
                                     f \in {ToFloat(val)}} } : TRUE
                 : val \in {comp.measures[CHOOSE i \in at :
                                            \A j \in at : i <= j].value} }
               : TRUE

\* Mutant: every component of the tree is kept
UncoveredFilesAll(components) ==
    [raised |-> FALSE, error |-> "none", files |-> components]

\* coverage.py:174-177: the components with an uncovered count above zero
RECURSIVE UncoveredFiles(_)
UncoveredFiles(components) ==
    IF components = <<>> THEN [raised |-> FALSE, error |-> "none", files |-> <<>>]
    ELSE CHOOSE r \in
           { IF c.raised THEN [raised |-> TRUE, error |-> c.error, files |-> <<>>]
             ELSE IF rest.raised THEN rest
             ELSE [rest EXCEPT !.files =
                      IF c.n > 0 THEN <<Head(components)>> \o @ ELSE @]
             : c \in {ComponentMetric(Head(components), "uncovered_lines")},
               rest \in {UncoveredFiles(Tail(components))} } : TRUE

\* The arguments a caller passes for branch and pr_id: None, "" or a name
UncoveredArgs ==
    {None, Str(""), Str("main")} \X {None, Str(""), Str("42")}

\* Mutant: only None counts as not given
MissingLocationNoneOnly(branch, pr_id) ==
    ~branch.some /\ ~pr_id.some

\* coverage.py:153: not branch and not pr_id
MissingLocation(branch, pr_id) ==
    ~(branch.some /\ branch.v # "") /\ ~(pr_id.some /\ pr_id.v # "")

\* Mutant: a branch that is given wins over the pull request
LocationBranchFirst(b) ==
    IF b.branch.some /\ b.branch.v # ""
    THEN <<Item("branch", b.branch.v)>>
    ELSE <<Item("pullRequest", b.pr_id.v)>>

\* coverage.py:156
Location(b) ==
    IF b.pr_id.some /\ b.pr_id.v # ""
    THEN <<Item("pullRequest", b.pr_id.v)>>
    ELSE <<Item("branch", b.branch.v)>>

\* coverage.py:161-167
TreeParams(b) ==
    <<Item("component", b.project_key),
      Item("metricKeys", "lines_to_cover,uncovered_lines"),
      Item("qualifiers", "FIL"),
      Item("ps", 500)>> \o Location(b)

\* Mutant: only the unit test hit count is read
UncoveredOfUnitTestsOnly(raw_lines) ==
    LET kept == SelectSeq(raw_lines,
                          LAMBDA ln : ln.hasUt /\ ln.utLineHits = 0)
    IN  [i \in 1..Len(kept) |-> [line |-> kept[i].line]]

\* coverage.py:188-195: the lines with no hit by a unit test or by any test
UncoveredOf(raw_lines) ==
    LET kept == SelectSeq(raw_lines,
                          LAMBDA ln : \/ (ln.hasUt /\ ln.utLineHits = 0)
                                      \/ (ln.hasLh /\ ln.lineHits = 0))
    IN  [i \in 1..Len(kept) |-> [line |-> kept[i].line]]

\* coverage.py:198-204: the entry of a file; its two metrics are read in
\* this order, and an exception of the first leaves before the second
FileEntry(comp, uncovered) ==
    CHOOSE r \in
      { IF ltc.raised THEN [raised |-> TRUE, error |-> ltc.error, entry |-> <<>>]
        ELSE IF ulc.raised
        THEN [raised |-> TRUE, error |-> ulc.error, entry |-> <<>>]
        ELSE [raised |-> FALSE, error |-> "none", entry |->
                <<Item("path", IF comp.hasPath THEN comp.path ELSE comp.key),
                  Item("component", comp.key),
                  Item("lines_to_cover", ltc.n),
                  Item("uncovered_lines_count", ulc.n),
                  Item("uncovered_lines", uncovered)>>]
        : ltc \in {ComponentMetric(comp, "lines_to_cover")},
          ulc \in {ComponentMetric(comp, "uncovered_lines")} } : TRUE

\* coverage.py:206-224
UncoveredReport(b, fr) ==
    LET Sum[i \in 0..Len(fr)] ==
            IF i = 0 THEN [ltc |-> 0, ulc |-> 0]
            ELSE [ltc |-> Sum[i - 1].ltc + Lookup(fr[i], "lines_to_cover"),
                  ulc |-> Sum[i - 1].ulc
                            + Lookup(fr[i], "uncovered_lines_count")]
    IN  [kind |-> "returned", error |-> "none",
         dict |-> <<Item("report_type", "uncovered_lines"),
                    Item("project_key", b.project_key),
                    Item("generated_at", "now"),
                    Item("summary",
                         <<Item("files_with_uncovered_lines", Len(fr)),
                           Item("total_lines_to_cover", Sum[Len(fr)].ltc),
                           Item("total_uncovered_lines", Sum[Len(fr)].ulc)>>),
                    Item("files", fr),
                    IF b.pr_id.some /\ b.pr_id.v # ""
                    THEN Item("pull_request", b.pr_id.v)
                    ELSE Item("branch", b.branch.v)>>]

\* The call: the argument check, then the first step enters get_paginated
GetUncoveredLines ==
    /\ report = NoReport
    /\ \E a \in UncoveredArgs :
         \E b \in {[fn |-> "get_uncovered_lines", project_key |-> "ch.wcs",
                    branch |-> a[1], pr_id |-> a[2]]} :
           IF MissingLocation(b.branch, b.pr_id)
           THEN /\ builder' = b
                /\ report' = [kind |-> "raised", error |-> "ValueError",
                              dict |-> <<>>]
                /\ UNCHANGED <<clientVars, catalog, uncovered_files,
                               files_report, normVars, configVars>>
           ELSE StartPaginated(b, "/api/measures/component_tree",
                               TreeParams(b))

\* A page of the component tree; with the last one, step 1 ends
\* (coverage.py:168-177) and, with no file kept, the report is built
TreePage ==
    /\ builder.fn = "get_uncovered_lines"
    /\ report.kind = "pending"
    /\ pc = "running"
    /\ Len(log) < MaxRequests
    /\ \E t \in TreeOutcomes : PageStep(t)
    /\ \E uf \in {IF pc' = "returned"
                  THEN UncoveredFiles(RawRecords(result'.value))
                  ELSE [raised |-> FALSE, error |-> "none", files |-> <<>>]} :
         /\ uncovered_files' = uf.files
         /\ report' = IF pc' = "raised"
                      THEN [kind |-> "raised", error |-> result'.error,
                            dict |-> <<>>]
                      ELSE IF pc' = "running" THEN report
                      ELSE IF uf.raised
                      THEN [kind |-> "raised", error |-> uf.error,
                            dict |-> <<>>]
                      ELSE IF uf.files = <<>>
                      THEN UncoveredReport(builder, <<>>)
                      ELSE report
    /\ UNCHANGED <<op, prev_warnings, endpoint, params, builder, catalog,
                   files_report>>
    /\ UNCHANGED <<normVars, configVars>>

\* One turn of the loop of step 2 (coverage.py:183-204): client.get for the
\* next file; after the last file the report is built
SourceFetch ==
    /\ builder.fn = "get_uncovered_lines"
    /\ report.kind = "pending"
    /\ pc = "returned"
    /\ \E idx \in {Cardinality({i \in 1..Len(log) :
                                  log[i].endpoint = "/api/sources/lines"}) + 1} :
         /\ idx <= Len(uncovered_files)
         /\ \E t \in SourceOutcomes :
              \E res \in {Request(t)} :
                \E comp \in {uncovered_files[idx]} :
                  /\ endpoint' = "/api/sources/lines"
                  /\ params' = <<Item("key", comp.key)>> \o Location(builder)
                  /\ log' = Append(log, LogEntry(endpoint', params', FALSE,
                                                 t, res))
                  /\ pc' = res.kind
                  /\ result' = [kind |-> res.kind, error |-> res.error,
                                status |-> res.status, value |-> <<>>,
                                body |-> res.body]
                  /\ \E fe \in
                       {IF res.kind = "raised"
                        THEN [raised |-> TRUE, error |-> res.error,
                              entry |-> <<>>]
                        ELSE IF ~res.body.hasSources
                                \/ UncoveredOf(res.body.sources) = <<>>
                        THEN [raised |-> FALSE, error |-> "none",
                              entry |-> <<>>]
                        ELSE FileEntry(comp, UncoveredOf(res.body.sources))} :
                       /\ files_report' =
                            IF fe.entry = <<>> THEN files_report
                            ELSE Append(files_report, fe.entry)
                       /\ report' =
                            IF fe.raised
                            THEN [kind |-> "raised", error |-> fe.error,
                                  dict |-> <<>>]
                            ELSE IF idx = Len(uncovered_files)
                            THEN UncoveredReport(builder, files_report')
                            ELSE report
    /\ op' = "get"
    /\ UNCHANGED <<all_results, page, warning_emitted, warnings,
                   prev_warnings, builder, catalog, uncovered_files>>
    /\ UNCHANGED <<normVars, configVars>>

UncoveredNext == GetUncoveredLines \/ TreePage \/ SourceFetch

----------------------------------------------------------------------------
(* Specifications                                                           *)

\* The client: get and get_paginated calls against an arbitrary backend
Init == ClientIdle /\ ParseIdle /\ StripIdle /\ ConfigIdle /\ BuilderIdle

Spec == Init /\ [][ClientNext]_vars

\* _parse_value applied to every measure of Measures
InitParse == ClientIdle /\ ParseInit /\ StripIdle /\ ConfigIdle /\ BuilderIdle

SpecParse == InitParse /\ [][ParseValueCall]_vars

\* _strip_new_prefix applied to every dict of Dicts
InitStrip == ClientIdle /\ ParseIdle /\ StripInit /\ ConfigIdle /\ BuilderIdle

SpecStrip == InitStrip /\ [][StripNewPrefixCall]_vars

\* resolve_project applied to configured and unknown names under every
\* configuration of Configs
InitConfig == ClientIdle /\ ParseIdle /\ StripIdle /\ ConfigInit /\ BuilderIdle

SpecConfig == InitConfig /\ [][ResolveProjectCall]_vars

\* get_coverage and get_pr_coverage against every outcome of CoverageOutcomes
InitCoverage == ClientIdle /\ ParseIdle /\ StripIdle /\ ConfigIdle /\ BuilderIdle

SpecCoverage == InitCoverage /\ [][GetCoverage \/ GetPrCoverage]_vars

\* The issue builders against every catalog of RawIssues and every outcome of
\* IssueOutcomes
InitIssues ==
    /\ ClientIdle /\ ParseIdle /\ StripIdle /\ ConfigIdle
    /\ builder = [fn |-> "none", project_key |-> "", branch |-> "",
                  pr_id |-> ""]
    /\ catalog \in [1..CatalogSize -> RawIssues]
    /\ report = NoReport
    /\ uncovered_files = <<>>
    /\ files_report = <<>>

SpecIssues == InitIssues /\ [][IssuesNext]_vars

\* get_uncovered_lines against a backend holding CatalogSize files
InitUncovered ==
    /\ ClientIdle /\ ParseIdle /\ StripIdle /\ ConfigIdle
    /\ builder = [fn |-> "none", project_key |-> "", branch |-> "",
                  pr_id |-> ""]
    /\ catalog \in [1..CatalogSize -> RawComponents]
    /\ report = NoReport
    /\ uncovered_files = <<>>
    /\ files_report = <<>>

SpecUncovered == InitUncovered /\ [][UncoveredNext]_vars

\* Every report builder, each against a backend holding the records its
\* endpoint serves: issues for the issue builders, files for
\* get_uncovered_lines; get_coverage and get_pr_coverage read no records.
InitBuilders ==
    /\ ClientIdle /\ ParseIdle /\ StripIdle /\ ConfigIdle
    /\ builder = [fn |-> "none", project_key |-> "", branch |-> "",
                  pr_id |-> ""]
    /\ catalog \in [1..CatalogSize -> RawIssues]
                     \cup [1..CatalogSize -> RawComponents]
                     \cup {<<>>}
    /\ report = NoReport
    /\ uncovered_files = <<>>
    /\ files_report = <<>>

BuildersNext ==
    \/ /\ catalog # <<>>
       /\ catalog[1] \in RawIssues
       /\ IssuesNext
    \/ /\ catalog = <<>>
       /\ (GetCoverage \/ GetPrCoverage)
    \/ /\ catalog # <<>>
       /\ catalog[1] \in RawComponents
       /\ UncoveredNext

SpecBuilders == InitBuilders /\ [][BuildersNext]_vars

----------------------------------------------------------------------------
(* Observations on the log of the current call                              *)

Fetched(k) == log[k].kind = "returned"

\* Number of items the k-th response carried under results_key
PageItems(k) ==
    IF Fetched(k) /\ log[k].t.body.hasResults THEN log[k].t.body.n ELSE 0

RECURSIVE CountUpTo(_)
CountUpTo(k) == IF k = 0 THEN 0 ELSE PageItems(k) + CountUpTo(k - 1)

DeclaresTotal(k) ==
    Fetched(k) /\ log[k].t.body.hasPaging /\ log[k].t.body.hasTotal

Min(a, b) == IF a < b THEN a ELSE b
Max(a, b) == IF a < b THEN b ELSE a

\* Size of the k-th page of a backend holding T records, 500 to a page
SliceSize(T, k) == Max(0, Min(PAGE_SIZE, T - (k - 1) * PAGE_SIZE))

\* ceil(T / 500), and 1 when T = 0
PagesNeeded(T) == Max(1, (T + PAGE_SIZE - 1) \div PAGE_SIZE)

\* Every response so far is a 200 carrying the k-th slice of T records and
\* declaring the total T.
Conforming(T) ==
    \A k \in 1..Len(log) :
        /\ log[k].t.exc = "none" /\ log[k].t.status = 200 /\ log[k].t.json
        /\ log[k].t.body.hasResults /\ log[k].t.body.n = SliceSize(T, k)
        /\ log[k].t.body.hasPaging /\ log[k].t.body.hasTotal
        /\ log[k].t.body.total = T

RecordsUpTo(T) == IF T = 0 THEN <<>> ELSE <<[first |-> 1, n |-> T]>>

\* C1: against a backend that declares the same total T on every page and
\* serves its T records in consecutive pages of 500, get_paginated returns
\* exactly the T records after exactly ceil(T/500) requests (one when T = 0),
\* and is still fetching only while fewer requests than that were issued.
C1_ExactPages ==
    \A T \in Totals :
        (op = "get_paginated" /\ Len(log) > 0 /\ Conforming(T)) =>
            /\ pc \in {"running", "returned"}
            /\ pc = "returned" =>
                 /\ Count(result.value) = T
                 /\ result.value = RecordsUpTo(T)
                 /\ Len(log) = PagesNeeded(T)
            /\ pc = "running" => Len(log) < PagesNeeded(T)

C1_Witness ==
    /\ op = "get_paginated" /\ pc = "returned" /\ Conforming(1250)
    /\ Len(log) = 3 /\ Count(result.value) = 1250

\* What the claim calls a transport error of a request
FailsTransport(t) ==
    \/ t.exc \in {"Timeout", "ConnectionError"}
    \/ t.exc = "none" /\ 400 <= t.status /\ t.status < 600

ExpectedError(t) ==
    IF t.exc \in {"Timeout", "ConnectionError"} THEN "NetworkError"
    ELSE IF t.status = 401 THEN "AuthenticationError"
    ELSE IF t.status = 404 THEN "NotFoundError"
    ELSE "SonarClientError"

\* C2: when the k-th request of a get_paginated call fails, the call raises
\* that error, hands none of the records of pages 1..k-1 to the caller, and
\* the failing request is the last one of the call.
C2_FailureAborts ==
    op = "get_paginated" =>
        \A k \in 1..Len(log) :
            FailsTransport(log[k].t) =>
                /\ k = Len(log)
                /\ pc = "raised"
                /\ result.kind = "raised"
                /\ result.error = ExpectedError(log[k].t)
                /\ result.value = <<>>

C2_Witness ==
    /\ op = "get_paginated" /\ Len(log) = 3 /\ FailsTransport(log[3].t)
    /\ Count(all_results) = 2 * PAGE_SIZE /\ pc = "raised"

\* C3: a fetched page with zero items is the last request of the call, which
\* returns the records accumulated before it, whatever total was declared.
C3_EmptyPageStops ==
    op = "get_paginated" =>
        \A k \in 1..Len(log) :
            (Fetched(k) /\ PageItems(k) = 0) =>
                /\ k = Len(log)
                /\ pc = "returned"
                /\ result.kind = "returned"
                /\ result.value = all_results
                /\ Count(result.value) = CountUpTo(k - 1)

C3_Witness ==
    /\ op = "get_paginated" /\ pc = "returned" /\ Len(log) = 2
    /\ Fetched(2) /\ PageItems(2) = 0
    /\ DeclaresTotal(2) /\ log[2].t.body.total > Count(result.value)
    /\ Count(result.value) = PAGE_SIZE

\* Some fetched page of the current call declares a total above the threshold
DeclaredOver ==
    \E k \in 1..Len(log) :
        DeclaresTotal(k) /\ log[k].t.body.total > PAGINATION_WARNING_THRESHOLD

\* The total get_paginated works with after the k-th page: the declared one,
\* or the count accumulated so far when the page declares none.
EffectiveTotal(k) ==
    IF DeclaresTotal(k) THEN log[k].t.body.total ELSE CountUpTo(k)

EffectiveOver ==
    \E k \in 1..Len(log) :
        Fetched(k) /\ EffectiveTotal(k) > PAGINATION_WARNING_THRESHOLD

\* C4 as stated: within one get_paginated call exactly one warning is emitted
\* if some fetched page declares total > 10 000, and none otherwise.
C4_WarnIffDeclared ==
    op = "get_paginated" => warnings = (IF DeclaredOver THEN 1 ELSE 0)

\* C4 amended: within one get_paginated call exactly one warning is emitted
\* if for some fetched page the total in force (declared, or the accumulated
\* count when the page declares none) exceeds 10 000, and none otherwise;
\* the count starts afresh with every call.
C4_WarnOncePerCall ==
    op = "get_paginated" => warnings = (IF EffectiveOver THEN 1 ELSE 0)

C4_Witness ==
    /\ op = "get_paginated" /\ prev_warnings = 1 /\ warnings = 1
    /\ Len(log) = 3
    /\ \A k \in 1..3 : DeclaresTotal(k)
            /\ log[k].t.body.total = PAGINATION_WARNING_THRESHOLD + 1

\* C5: every request ends in a parsed body or in one of the four client
\* errors; 401 gives AuthenticationError, 404 NotFoundError, a timeout or a
\* connection failure NetworkError, and none of these three derives from
\* another.
C5_TypedOutcome ==
    /\ \A k \in 1..Len(log) :
          /\ log[k].kind = "returned" \/ log[k].error \in ClientErrors
          /\ (log[k].t.exc = "none" /\ log[k].t.status = 401)
                => log[k].error = "AuthenticationError"
          /\ (log[k].t.exc = "none" /\ log[k].t.status = 404)
                => log[k].error = "NotFoundError"
          /\ log[k].t.exc \in {"Timeout", "ConnectionError"}
                => log[k].error = "NetworkError"
    /\ \A a, b \in {"AuthenticationError", "NotFoundError", "NetworkError"} :
          a # b => ~IsSubtype(a, b)

Is2xx(status) == 200 <= status /\ status <= 299

\* C6: a response whose status is outside 200-299 and is neither 401 nor 404
\* makes the request raise SonarClientError carrying that status, and a body
\* is returned only for a 2xx status.
C6_Non2xxRaises ==
    \A k \in 1..Len(log) :
        log[k].t.exc = "none" =>
            /\ (~Is2xx(log[k].t.status) /\ log[k].t.status \notin {401, 404})
                  => /\ log[k].kind = "raised"
                     /\ log[k].error = "SonarClientError"
                     /\ log[k].status = log[k].t.status
            /\ log[k].kind = "returned" => Is2xx(log[k].t.status)

----------------------------------------------------------------------------
(* Claims on _parse_value, under SpecParse                                  *)

\* The value _parse_value converts, and the float it parses to
Chosen == SelectVal(measure)
ChosenFloat == ToFloat(Chosen)

ParsesToNumber ==
    Chosen.type = "str" /\ ChosenFloat.ok /\ ChosenFloat.kind = "fin"

\* m * 10^e in normal form is a whole number exactly when e >= 0
IsWhole(f) == f.e >= 0

ValueIs(s) == measure.value = JStr(s)

\* C7: when the value string parses to a number, _parse_value returns that
\* number as an integer if it is whole and as the same float, neither rounded
\* nor truncated, if it has a fractional part ("88.0" gives the integer 88,
\* "200" the integer 200, "85.5" the float 85.5).
C7_WholeIsIntFractionKept ==
    parsed # Pending =>
        /\ ParsesToNumber =>
             /\ parsed.kind = (IF IsWhole(ChosenFloat) THEN "int" ELSE "float")
             /\ parsed.m = ChosenFloat.m
             /\ parsed.e = ChosenFloat.e
        /\ ValueIs(<<"8", "8", ".", "0">>) => parsed = PInt(Float("fin", 88, 0))
        /\ ValueIs(<<"2", "0", "0">>) => parsed = PInt(Float("fin", 2, 2))
        /\ ValueIs(<<"8", "5", ".", "5">>) => parsed = PFloat(Float("fin", 855, -1))

C7_Witness ==
    /\ ValueIs(<<"8", "8", ".", "0">>) /\ measure.period = PAbsent
    /\ parsed.kind = "int" /\ parsed.m = 88 /\ parsed.e = 0

BothAbsent ==
    /\ IsNone(measure.value)
    /\ measure.period.type # "dict" \/ IsNone(measure.period.value)

\* C8: the result is computed from `value` whenever `value` is present,
\* whatever period.value holds; from period.value only when `value` is absent
\* or null; and it is None exactly when both are absent.
C8_ValuePreferred ==
    parsed # Pending =>
        /\ ~IsNone(measure.value) => parsed = Convert(measure.value)
        /\ (IsNone(measure.value) /\ measure.period.type = "dict")
              => parsed = Convert(measure.period.value)
        /\ parsed.kind = "none" <=> BothAbsent

C8_Witness ==
    /\ ValueIs(<<"8", "8", ".", "0">>)
    /\ measure.period = PDict(JStr(<<"7", "7", ".", "3">>))
    /\ parsed = PInt(Float("fin", 88, 0))

\* C9: _parse_value never raises, and a value string that is not a finite
\* number comes back unchanged.
C9_NeverRaises ==
    parsed # Pending =>
        /\ parsed.kind # "raised"
        /\ (Chosen.type = "str" /\ ~ParsesToNumber) => parsed = PRaw(Chosen)

----------------------------------------------------------------------------
(* Claims on _strip_new_prefix, under SpecStrip                             *)

NoNewKeys(d) == \A i \in 1..Len(d) : ~StartsWithNew(d[i].k)

\* K[4:]
DropFour(k) == SubSeq(k, 5, Len(k))

\* The name an item goes by in the output
OutputName(k) == IF StartsWithNew(k) THEN DropFour(k) ELSE k

\* The last item of d, in insertion order, that goes by the name n
LastNamed(d, n) ==
    CHOOSE j \in 1..Len(d) :
        /\ OutputName(d[j].k) = n
        /\ \A h \in (j + 1)..Len(d) : OutputName(d[h].k) # n

Unchanged ==
    NoNewKeys(mapping) =>
        /\ stripped.d = mapping
        /\ StripNewPrefix(stripped.d) = stripped.d

\* C10 as stated: a mapping without "new_" keys is returned unchanged, and
\* for every key K starting with "new_" the output maps K[4:] to K's value.
C10_PrefixedKeepsOwnValue ==
    stripped.done =>
        /\ Unchanged
        /\ \A i \in 1..Len(mapping) :
              StartsWithNew(mapping[i].k) =>
                  /\ HasKey(stripped.d, DropFour(mapping[i].k))
                  /\ Lookup(stripped.d, DropFour(mapping[i].k)) = mapping[i].v

\* C10 amended: a mapping without "new_" keys is returned unchanged, and for
\* every key K starting with "new_" the output contains K[4:], mapped to the
\* value of the last item, in insertion order, whose key is K[4:] or strips
\* to K[4:]: K's own value unless a later item collides with it.
C10_PrefixedLastWins ==
    stripped.done =>
        /\ Unchanged
        /\ \A i \in 1..Len(mapping) :
              StartsWithNew(mapping[i].k) =>
                  /\ HasKey(stripped.d, DropFour(mapping[i].k))
                  /\ Lookup(stripped.d, DropFour(mapping[i].k))
                        = mapping[LastNamed(mapping, DropFour(mapping[i].k))].v

C10_Witness ==
    /\ stripped.done
    /\ mapping = <<Item(<<"n", "e", "w", "_", "x">>, 1), Item(<<"x">>, 2)>>
    /\ stripped.d = <<Item(<<"x">>, 2)>>

----------------------------------------------------------------------------
(* Requests and result of get_paginated                                     *)

\* The record at position i (from 1) of a list of runs
RECURSIVE RecordAt(_, _)
RecordAt(runs, i) ==
    IF i <= Head(runs).n THEN Head(runs).first + i - 1
    ELSE RecordAt(Tail(runs), i - Head(runs).n)

\* The query of request k carries the caller's parameter i unchanged
CarriesCallerParam(k, i) ==
    /\ HasKey(log[k].query, params[i].k)
    /\ Lookup(log[k].query, params[i].k) = params[i].v

QueryKeys(k) == {log[k].query[i].k : i \in 1..Len(log[k].query)}

CallerKeys == {params[i].k : i \in 1..Len(params)}

\* The call ended after request k by returning
Stopped(k) == k = Len(log) /\ pc = "returned"

\* C18: the k-th request of a get_paginated call carries p = k and
\* ps = PAGE_SIZE, whatever "p" and "ps" the caller passed, and every other
\* caller parameter unchanged; the returned list is the pages' result arrays
\* one after the other in request order, a page without the results key
\* adding nothing.
C18_PageParamsAndOrder ==
    op = "get_paginated" =>
        /\ \A k \in 1..Len(log) :
            /\ QueryKeys(k) = CallerKeys \cup {"p", "ps"}
            /\ Lookup(log[k].query, "p") = k
            /\ Lookup(log[k].query, "ps") = PAGE_SIZE
            /\ \A i \in 1..Len(params) :
                 params[i].k \notin {"p", "ps"} => CarriesCallerParam(k, i)
        /\ pc = "returned" =>
            /\ Count(result.value) = CountUpTo(Len(log))
            /\ \A k \in 1..Len(log) :
                 PageItems(k) > 0 =>
                    /\ RecordAt(result.value, CountUpTo(k - 1) + 1)
                          = (k - 1) * PAGE_SIZE + 1
                    /\ RecordAt(result.value, CountUpTo(k))
                          = (k - 1) * PAGE_SIZE + PageItems(k)

\* A caller passing its own "p" and "ps" gets two pages, the second of them
\* without the results key
C18_Witness ==
    /\ op = "get_paginated" /\ pc = "returned" /\ Len(log) = 2
    /\ HasKey(params, "p") /\ HasKey(params, "ps")
    /\ Lookup(params, "ps") # PAGE_SIZE
    /\ PageItems(1) = PAGE_SIZE
    /\ Fetched(2) /\ ~log[2].t.body.hasResults
    /\ Count(result.value) = PAGE_SIZE

\* Some page up to k declared a total
HasFirstTotal(k) == \E j \in 1..k : DeclaresTotal(j)

\* The total declared by the first page that declared one
FirstTotal(k) ==
    log[CHOOSE j \in 1..k :
            DeclaresTotal(j) /\ \A i \in 1..(j - 1) : ~DeclaresTotal(i)].t.body.total

\* C19 as stated: once a page has declared a total, the call stops after a
\* page exactly when the accumulated count has reached that first total or
\* the page was empty, whatever later pages declare.
C19_StopOnFirstTotal ==
    op = "get_paginated" =>
        \A k \in 1..Len(log) :
            (Fetched(k) /\ HasFirstTotal(k)) =>
                (Stopped(k) <=> (CountUpTo(k) >= FirstTotal(k) \/ PageItems(k) = 0))

\* C19: the call stops after a page exactly when the accumulated count has
\* reached the total in force for that very page (its paging.total, or the
\* accumulated count when it declares none) or the page was empty; the total
\* is read afresh from every page.
C19_StopOnCurrentTotal ==
    op = "get_paginated" =>
        \A k \in 1..Len(log) :
            Fetched(k) =>
                (Stopped(k) <=> (CountUpTo(k) >= EffectiveTotal(k) \/ PageItems(k) = 0))

\* The second page lowers the total and ends the call below the first total
C19_Witness ==
    /\ op = "get_paginated" /\ Len(log) = 2 /\ Stopped(2)
    /\ DeclaresTotal(1) /\ DeclaresTotal(2)
    /\ log[2].t.body.total < log[1].t.body.total
    /\ PageItems(2) > 0
    /\ CountUpTo(2) < log[1].t.body.total

\* Some page of the call declared a total above the threshold
DeclaresOver ==
    \E k \in 1..Len(log) :
        DeclaresTotal(k) /\ log[k].t.body.total > PAGINATION_WARNING_THRESHOLD

\* C20 as stated: when the backend declares a total above the threshold, the
\* warning is emitted by the first page that takes the accumulated count
\* above the threshold, and by no other.
C20_WarnWhenCountExceeds ==
    (op = "get_paginated" /\ DeclaresOver) =>
        \A k \in 1..Len(log) :
            Fetched(k) =>
                (log[k].warned <=>
                    /\ CountUpTo(k) > PAGINATION_WARNING_THRESHOLD
                    /\ CountUpTo(k - 1) <= PAGINATION_WARNING_THRESHOLD)

\* C20: the warning is emitted by the first page whose total in force is above
\* the threshold, whatever has been accumulated, and by no other page; the
\* warning does not end the call, which goes on whenever the stop rule allows.
C20_WarnAtFirstTotalOver ==
    op = "get_paginated" =>
        \A k \in 1..Len(log) :
            Fetched(k) =>
                /\ log[k].warned <=>
                     /\ EffectiveTotal(k) > PAGINATION_WARNING_THRESHOLD
                     /\ \A j \in 1..(k - 1) :
                          EffectiveTotal(j) <= PAGINATION_WARNING_THRESHOLD
                /\ (log[k].warned /\ CountUpTo(k) < EffectiveTotal(k)
                        /\ PageItems(k) > 0) => ~Stopped(k)

\* The first page declares 10 001 records, brings 250, warns, and the call
\* goes on to further pages
C20_Witness ==
    /\ op = "get_paginated" /\ Len(log) = 3
    /\ DeclaresTotal(1)
    /\ log[1].t.body.total = PAGINATION_WARNING_THRESHOLD + 1
    /\ PageItems(1) = 250
    /\ log[1].warned /\ ~log[2].warned /\ ~log[3].warned
    /\ warnings = 1

----------------------------------------------------------------------------
(* Project resolution                                                       *)

IsAlias(n) == \E i \in 1..Len(projects) : projects[i].k = n

IsProjectKey(n) == \E i \in 1..Len(projects) : projects[i].v = n

\* Every alias of the configuration is one of the pieces of the message
NamesAliases(message) ==
    \A i \in 1..Len(projects) :
        \E j \in 1..Len(message) : message[j] = projects[i].k

\* C17: resolve_project(name) returns projects[name] when name is an alias,
\* also when name is the key of another alias; returns name when name is no
\* alias but a configured key; raises ProjectNotFoundError naming the aliases
\* otherwise; and whatever it returns is a configured project key.
C17_ResolveProject ==
    resolved # NotResolved =>
        /\ IsAlias(name) =>
              /\ resolved.kind = "returned"
              /\ \E i \in 1..Len(projects) :
                    projects[i].k = name /\ resolved.value = projects[i].v
        /\ (~IsAlias(name) /\ IsProjectKey(name)) =>
              /\ resolved.kind = "returned"
              /\ resolved.value = name
        /\ (~IsAlias(name) /\ ~IsProjectKey(name)) =>
              /\ resolved.kind = "raised"
              /\ resolved.error = "ProjectNotFoundError"
              /\ NamesAliases(resolved.message)
              /\ \E j \in 1..Len(resolved.message) : resolved.message[j] = name
        /\ resolved.kind = "returned" => IsProjectKey(resolved.value)

\* The name is an alias and the key of another alias: the alias wins
C17_Witness ==
    /\ resolved.kind = "returned"
    /\ IsAlias(name) /\ IsProjectKey(name)
    /\ resolved.value # name

----------------------------------------------------------------------------
(* Coverage reports                                                         *)

Range(seq) == {seq[i] : i \in 1..Len(seq)}

ReportKeys == {report.dict[i].k : i \in 1..Len(report.dict)}

SectionKeys(section) ==
    {Lookup(report.dict, section)[i].k :
        i \in 1..Len(Lookup(report.dict, section))}

\* The backend answered the builder's request with a JSON body
Answered == Len(log) = 1 /\ log[1].kind = "returned"

\* The metrics of the measures the backend's answer carries
ReturnedMetrics ==
    IF log[1].t.body.hasComponent /\ log[1].t.body.hasMeasures
    THEN {log[1].t.body.measures[i].metric :
            i \in 1..Len(log[1].t.body.measures)}
    ELSE {}

\* The declared new-code names without their first four characters
StrippedNewNames == {SubSeq(k, 5, Len(k)) : k \in Range(NEW_CODE_METRICS)}

\* C11: whatever JSON body the backend answers get_coverage with, the report
\* has a metrics and a new_code section, the keys of metrics are the seven
\* declared current-code names, the keys of new_code the seven declared
\* new-code names without "new_", and a declared metric the backend did not
\* return is there with the value None.
C11_BranchReportSections ==
    (builder.fn = "get_coverage" /\ Answered) =>
        /\ report.kind = "returned"
        /\ {"metrics", "new_code"} \subseteq ReportKeys
        /\ SectionKeys("metrics") = Range(BRANCH_METRICS)
        /\ SectionKeys("new_code") = StrippedNewNames
        /\ \A k \in Range(BRANCH_METRICS) \ ReturnedMetrics :
              Lookup(Lookup(report.dict, "metrics"), k) = PNone
        /\ \A k \in Range(NEW_CODE_METRICS) \ ReturnedMetrics :
              Lookup(Lookup(report.dict, "new_code"), SubSeq(k, 5, Len(k)))
                 = PNone

\* The pieces of the metricKeys parameter of the builder's request that are
\* metric names
RequestedMetrics ==
    {piece \in Range(Lookup(log[1].query, "metricKeys")) : piece # <<",">>}

\* C12: whatever JSON body the backend answers get_pr_coverage with, the
\* report has no metrics key, has a new_code section with every declared
\* new-code name without "new_", and the one request asked for "new_" metric
\* keys only.
C12_PrReportNewCodeOnly ==
    (builder.fn = "get_pr_coverage" /\ Answered) =>
        /\ report.kind = "returned"
        /\ "metrics" \notin ReportKeys
        /\ "new_code" \in ReportKeys
        /\ SectionKeys("new_code") = StrippedNewNames
        /\ \A k \in RequestedMetrics : SubSeq(k, 1, 4) = NewPrefix

----------------------------------------------------------------------------
(* Issue reports                                                            *)

IssueBuilt ==
    /\ builder.fn \in {"get_pr_issues", "get_new_issues", "get_all_issues"}
    /\ report.kind = "returned"

ReportIssues == Lookup(report.dict, "issues")

ReportSummary == Lookup(report.dict, "summary")

\* The raw issue at position i of the list get_paginated returned
FetchedRaw(i) ==
    catalog[((RecordAt(result.value, i) - 1) % Len(catalog)) + 1]

\* C13: every issue record of the report has exactly the twelve fixed fields,
\* a fixed field holding what the backend sent for it and None when the
\* backend omitted it, a field outside the twelve never appearing; and the
\* records are those of the paginated fetch, as many and in the same order.
C13_TwelveFieldsInOrder ==
    IssueBuilt =>
        /\ Len(ReportIssues) = Count(result.value)
        /\ \A i \in 1..Len(ReportIssues) :
            /\ DOMAIN ReportIssues[i] =
                  {"key", "rule", "severity", "type", "component", "line",
                   "message", "effort", "status", "assignee", "tags",
                   "creationDate"}
            /\ Cardinality(DOMAIN ReportIssues[i]) = 12
            /\ \A f \in DOMAIN ReportIssues[i] :
                  ReportIssues[i][f] =
                     IF f \in DOMAIN FetchedRaw(i) THEN FetchedRaw(i)[f]
                     ELSE None

\* Three issues over two pages, one of them with a field nobody asked for and
\* without most of the twelve
C13_Witness ==
    /\ IssueBuilt /\ Len(log) = 2 /\ Len(ReportIssues) = 3
    /\ \E i \in 1..3 :
          /\ "unexpected_field" \in DOMAIN FetchedRaw(i)
          /\ "rule" \notin DOMAIN FetchedRaw(i)
          /\ ReportIssues[i]["rule"] = None
    /\ \E i, j \in 1..3 : FetchedRaw(i) # FetchedRaw(j)

\* Number of issues of the report whose field holds the value
Having(field, value) ==
    Cardinality({i \in 1..Len(ReportIssues) :
                    ReportIssues[i][field] = Str(value)})

SeveritySum ==
    ReportSummary.by_severity["BLOCKER"] + ReportSummary.by_severity["CRITICAL"]
    + ReportSummary.by_severity["MAJOR"] + ReportSummary.by_severity["MINOR"]
    + ReportSummary.by_severity["INFO"]

TypeSum ==
    ReportSummary.by_type["BUG"] + ReportSummary.by_type["VULNERABILITY"]
    + ReportSummary.by_type["CODE_SMELL"]

\* Number of issues of the report whose field is None or outside the values
Outside(field, values) ==
    Cardinality({i \in 1..Len(ReportIssues) :
                    \A v \in values : ReportIssues[i][field] # Str(v)})

\* C14: total is the number of issues of the report; by_severity has exactly
\* the five severities and by_type exactly the three types as keys; a bucket
\* holds the number of issues with its value; an issue whose severity (type)
\* is missing or outside the enumeration is in total and in no severity (type)
\* bucket, so the buckets sum to at most total.
C14_SummaryCounts ==
    IssueBuilt =>
        /\ ReportSummary.total = Len(ReportIssues)
        /\ DOMAIN ReportSummary.by_severity =
              {"BLOCKER", "CRITICAL", "MAJOR", "MINOR", "INFO"}
        /\ DOMAIN ReportSummary.by_type = {"BUG", "VULNERABILITY", "CODE_SMELL"}
        /\ \A sev \in DOMAIN ReportSummary.by_severity :
              ReportSummary.by_severity[sev] = Having("severity", sev)
        /\ \A typ \in DOMAIN ReportSummary.by_type :
              ReportSummary.by_type[typ] = Having("type", typ)
        /\ SeveritySum + Outside("severity", DOMAIN ReportSummary.by_severity)
              = ReportSummary.total
        /\ TypeSum + Outside("type", DOMAIN ReportSummary.by_type)
              = ReportSummary.total
        /\ SeveritySum <= ReportSummary.total
        /\ TypeSum <= ReportSummary.total

\* A report of three issues, some of them counted and some with a severity
\* and a type outside the enumerations or missing
C14_Witness ==
    /\ IssueBuilt /\ ReportSummary.total = 3
    /\ Outside("severity", SEVERITIES) >= 1
    /\ Outside("type", TYPES) >= 1
    /\ SeveritySum >= 1 /\ SeveritySum < 3
    /\ TypeSum >= 1 /\ TypeSum < 3

\* C15 as stated: whatever the backend answers get_all_issues with, no issue
\* of the report is ACCEPTED and none is counted.
C15_NoAcceptedInReport ==
    (IssueBuilt /\ builder.fn = "get_all_issues") =>
        /\ \A i \in 1..Len(ReportIssues) :
              ReportIssues[i]["status"] # Str("ACCEPTED")
        /\ ReportSummary.total =
              Cardinality({i \in 1..Count(result.value) :
                              "status" \in DOMAIN FetchedRaw(i)
                              /\ FetchedRaw(i)["status"] # Str("ACCEPTED")})

\* C15: every request of get_all_issues asks the backend for the statuses
\* OPEN, CONFIRMED and REOPENED only; the builder filters nothing itself, so
\* every issue the backend returns is in the report and counted, whatever
\* its status, and no ACCEPTED issue is there when the backend returned none.
C15_StatusesRequested ==
    builder.fn = "get_all_issues" =>
        /\ \A k \in 1..Len(log) :
              /\ HasKey(log[k].query, "statuses")
              /\ Lookup(log[k].query, "statuses") = "OPEN,CONFIRMED,REOPENED"
        /\ report.kind = "returned" =>
              /\ ReportSummary.total = Count(result.value)
              /\ Len(ReportIssues) = Count(result.value)
              /\ \A i \in 1..Len(ReportIssues) :
                    ReportIssues[i]["status"] = FetchedRaw(i)["status"]
              /\ (\A i \in 1..Count(result.value) :
                     FetchedRaw(i)["status"] # Str("ACCEPTED"))
                  => \A i \in 1..Len(ReportIssues) :
                        ReportIssues[i]["status"] # Str("ACCEPTED")

\* The backend returns an ACCEPTED issue next to an OPEN one: both are in the
\* report
C15_Witness ==
    /\ IssueBuilt /\ builder.fn = "get_all_issues"
    /\ Len(ReportIssues) = 2 /\ ReportSummary.total = 2
    /\ ReportIssues[1]["status"] = Str("OPEN")
    /\ ReportIssues[2]["status"] = Str("ACCEPTED")


----------------------------------------------------------------------------
(* C16                                                                      *)

NotGiven(x) == x = None \/ x = Str("")

\* C16: whenever get_uncovered_lines has been called with a branch that is
\* None or empty and a pr_id that is None or empty, the call has failed
\* with ValueError and no request has been sent: the request log is empty
\* and the client has not been entered.
C16_NoLocationFailsBeforeAnyRequest ==
    (builder.fn = "get_uncovered_lines"
        /\ NotGiven(builder.branch) /\ NotGiven(builder.pr_id))
    => /\ report.kind = "raised"
       /\ report.error = "ValueError"
       /\ log = <<>>
       /\ pc = "idle"
       /\ endpoint = ""

\* An empty branch with no pr_id has been refused
C16_Witness ==
    /\ builder.fn = "get_uncovered_lines"
    /\ builder.branch = Str("")
    /\ builder.pr_id = None
    /\ report.kind = "raised"
    /\ report.error = "ValueError"
    /\ log = <<>>


----------------------------------------------------------------------------
(* C21                                                                      *)

FailedRequests == {i \in 1..Len(log) : log[i].kind = "raised"}

\* C21: in every report builder, once a request of the builder has failed,
\* that request is the last one the builder sent (it is not sent again and
\* nothing follows it), the builder has raised the error of that request
\* unchanged, and the caller has no report, whatever was collected before.
C21_FailurePropagates ==
    (builder.fn # "none" /\ FailedRequests # {})
    => /\ FailedRequests = {Len(log)}
       /\ report.kind = "raised"
       /\ report.error = log[Len(log)].error
       /\ report.dict = <<>>
       /\ pc = "raised"

\* The source fetch of the second file failed after the first succeeded
C21_Witness ==
    /\ builder.fn = "get_uncovered_lines"
    /\ Len(files_report) = 1
    /\ Len(uncovered_files) >= 2
    /\ log[Len(log)].endpoint = "/api/sources/lines"
    /\ log[Len(log)].kind = "raised"
    /\ log[Len(log) - 1].endpoint = "/api/sources/lines"
    /\ report.kind = "raised"


----------------------------------------------------------------------------
(* C22                                                                      *)

TreeRequests ==
    {i \in 1..Len(log) : log[i].endpoint = "/api/measures/component_tree"}

SourceRequests ==
    {i \in 1..Len(log) : log[i].endpoint = "/api/sources/lines"}

\* The files asked for, in the order of the requests
SourceKeys ==
    LET at == SelectSeq([i \in 1..Len(log) |-> i],
                        LAMBDA i : i \in SourceRequests)
    IN  [n \in 1..Len(at) |-> Lookup(log[at[n]].query, "key")]

\* The uncovered_lines metric of a component as the backend states it: the
\* value of its first measure of that name, if it has one
HasUncoveredMeasure(c) ==
    \E i \in 1..Len(c.measures) : c.measures[i].metric = "uncovered_lines"

UncoveredValue(c) ==
    c.measures[CHOOSE i \in 1..Len(c.measures) :
                 /\ c.measures[i].metric = "uncovered_lines"
                 /\ \A j \in 1..(i - 1) :
                      c.measures[j].metric # "uncovered_lines"].value

\* The metric is a decimal number above zero once its fraction is dropped
PositiveCount(c) ==
    /\ HasUncoveredMeasure(c)
    /\ UncoveredValue(c).type = "str"
    /\ LET t == UncoveredValue(c).s
           n == DigitPrefixLen(t)
       IN  /\ n >= 1
           /\ DigitsVal(SubSeq(t, 1, n)) > 0
           /\ \/ n = Len(t)
              \/ /\ t[n + 1] = "."
                 /\ DigitPrefixLen(SubSeq(t, n + 2, Len(t))) = Len(t) - n - 1

\* The components the tree pages brought, and those of them with a count
\* above zero, in the order they came
TreeComponents == RawRecords(all_results)

ExpectedFiles == SelectSeq(TreeComponents, LAMBDA c : PositiveCount(c))

----------------------------------------------------------------------------
(* C23                                                                      *)

\* The lines of the answer to the last request, when that request asked for
\* the lines of a file and was answered
AnsweredLines(l, res) ==
    IF l # <<>> /\ l[Len(l)].endpoint = "/api/sources/lines"
       /\ l[Len(l)].kind = "returned" /\ res.body.hasSources
    THEN res.body.sources
    ELSE <<>>

\* A hit count that is there and is zero
ZeroHits(ln) ==
    \/ (ln.hasUt /\ ln.utLineHits = 0)
    \/ (ln.hasLh /\ ln.lineHits = 0)

LineNumbers(entry) ==
    [i \in 1..Len(Lookup(entry, "uncovered_lines")) |->
        Lookup(entry, "uncovered_lines")[i].line]

\* C23: each answered /api/sources/lines request of get_uncovered_lines adds
\* to the files of the report the lines of the answer whose utLineHits is 0
\* or whose lineHits is 0, in the order of the answer, and no other line; an
\* answer without such a line adds no file.
C23_ZeroHitLinesKeptInOrder ==
    [][(builder.fn = "get_uncovered_lines" /\ Len(log') = Len(log) + 1
          /\ log'[Len(log')].endpoint = "/api/sources/lines"
          /\ log'[Len(log')].kind = "returned")
       => LET lines == AnsweredLines(log', result')
              zero  == SelectSeq(lines, LAMBDA ln : ZeroHits(ln))
          IN  IF zero = <<>>
              THEN files_report' = files_report
              ELSE /\ Len(files_report') = Len(files_report) + 1
                   /\ SubSeq(files_report', 1, Len(files_report))
                        = files_report
                   /\ Lookup(files_report'[Len(files_report')], "component")
                        = Lookup(log'[Len(log')].query, "key")
                   /\ LineNumbers(files_report'[Len(files_report')])
                        = [i \in 1..Len(zero) |-> zero[i].line]]_vars

\* An answer of three lines, of which the first has only lineHits at zero and
\* the second only utLineHits, gave a file with these two lines in that order
C23_Witness ==
    /\ builder.fn = "get_uncovered_lines"
    /\ Len(AnsweredLines(log, result)) = 3
    /\ ~AnsweredLines(log, result)[1].hasUt \/ AnsweredLines(log, result)[1].utLineHits # 0
    /\ files_report # <<>>
    /\ Lookup(files_report[Len(files_report)], "component")
         = Lookup(log[Len(log)].query, "key")
    /\ LineNumbers(files_report[Len(files_report)])
         = <<AnsweredLines(log, result)[1].line,
             AnsweredLines(log, result)[2].line>>
    /\ AnsweredLines(log, result)[1].line > AnsweredLines(log, result)[2].line


----------------------------------------------------------------------------
(* C24                                                                      *)

\* A metric of a component as the backend states it: the whole part of the
\* decimal text of its first measure of that name, 0 without such a text
StatedMetric(c, metric) ==
    LET at == {i \in 1..Len(c.measures) : c.measures[i].metric = metric}
        v  == c.measures[CHOOSE i \in at : \A j \in at : i <= j].value
    IN  IF at = {} THEN 0
        ELSE IF v.type # "str" THEN 0
        ELSE DigitsVal(SubSeq(v.s, 1, DigitPrefixLen(v.s)))

RECURSIVE SumOver(_, _)
SumOver(files, metric) ==
    IF files = <<>> THEN 0
    ELSE StatedMetric(Head(files), metric) + SumOver(Tail(files), metric)

\* C24: in a returned get_uncovered_lines report the two totals of the
\* summary are the sums of the lines_to_cover and uncovered_lines metrics
\* over the components of the tree whose uncovered_lines metric is above
\* zero.
C24_TotalsOverRetainedFiles ==
    (builder.fn = "get_uncovered_lines" /\ report.kind = "returned")
    => /\ Lookup(Lookup(report.dict, "summary"), "total_lines_to_cover")
            = SumOver(ExpectedFiles, "lines_to_cover")
       /\ Lookup(Lookup(report.dict, "summary"), "total_uncovered_lines")
            = SumOver(ExpectedFiles, "uncovered_lines")


----------------------------------------------------------------------------
(* C25                                                                      *)

\* The largest total a page of the current call declared, 0 if none did
MaxDeclared ==
    LET ds == {log[k].t.body.total : k \in {j \in 1..Len(log) : DeclaresTotal(j)}}
    IN  IF ds = {} THEN 0 ELSE CHOOSE d \in ds : \A e \in ds : e <= d

\* C25: a get_paginated call whose pages declare totals of at most T, or no
\* total, has sent at most max(1, T) requests, and after max(1, T) requests
\* it is no longer running, whatever the pages held.
C25_RequestsBoundedByTotal ==
    op = "get_paginated"
    => /\ Len(log) <= Max(1, MaxDeclared)
       /\ pc = "running" => Len(log) < Max(1, MaxDeclared)

\* The bound is reached: pages of one record each, every one declaring the
\* same total of two or more, took as many requests as the total
C25_Witness ==
    /\ op = "get_paginated"
    /\ pc = "returned"
    /\ MaxDeclared >= 2
    /\ Len(log) = MaxDeclared
    /\ \A k \in 1..Len(log) :
         DeclaresTotal(k) /\ log[k].t.body.total = MaxDeclared /\ PageItems(k) = 1


----------------------------------------------------------------------------
(* C26                                                                      *)

\* C26: in a get_paginated call a fetched page without paging.total is the
\* last request of the call: the call has returned the records accumulated
\* up to that page, and it warned on that page exactly if that count is
\* above the threshold and no earlier page warned, the count standing for
\* the total. If the first page is such a page, the call sent one request
\* and returned the records of page 1 only.
C26_NoTotalStopsAfterThatPage ==
    op = "get_paginated"
    => /\ \A k \in 1..Len(log) :
            (Fetched(k) /\ ~DeclaresTotal(k))
            => /\ k = Len(log)
               /\ pc = "returned"
               /\ result.kind = "returned"
               /\ Count(result.value) = CountUpTo(k)
               /\ log[k].warned
                    = (/\ CountUpTo(k) > PAGINATION_WARNING_THRESHOLD
                       /\ \A j \in 1..(k - 1) : ~log[j].warned)
       /\ (Len(log) >= 1 /\ Fetched(1) /\ ~DeclaresTotal(1))
          => /\ Len(log) = 1
             /\ result.value = Items(1, PageItems(1))

\* A full first page without total: one request, 500 records returned
C26_Witness ==
    /\ op = "get_paginated"
    /\ Len(log) = 1
    /\ Fetched(1)
    /\ ~DeclaresTotal(1)
    /\ PageItems(1) = PAGE_SIZE
    /\ pc = "returned"
    /\ result.value = <<[first |-> 1, n |-> PAGE_SIZE]>>


----------------------------------------------------------------------------
(* C27                                                                      *)

\* d carries the key k with the value v and does not carry the key other
OnlySelector(d, k, v, other) ==
    /\ HasKey(d, k)
    /\ Lookup(d, k) = v
    /\ ~HasKey(d, other)

\* C27: a get_uncovered_lines call given a branch or a pr_id is not refused;
\* each of its requests, tree page or source fetch, carries pullRequest with
\* the pr_id and no branch when a pr_id is given, whether or not a branch is
\* given too, and branch with the branch and no pullRequest otherwise; the
\* returned report carries pull_request and no branch in the first case,
\* branch and no pull_request in the second.
C27_OneLocationSelector ==
    (builder.fn = "get_uncovered_lines"
        /\ ~(NotGiven(builder.branch) /\ NotGiven(builder.pr_id)))
    => /\ ~(report.kind = "raised" /\ report.error = "ValueError")
       /\ \A k \in 1..Len(log) :
            IF ~NotGiven(builder.pr_id)
            THEN OnlySelector(log[k].query, "pullRequest",
                              builder.pr_id.v, "branch")
            ELSE OnlySelector(log[k].query, "branch",
                              builder.branch.v, "pullRequest")
       /\ report.kind = "returned"
          => IF ~NotGiven(builder.pr_id)
             THEN OnlySelector(report.dict, "pull_request",
                               builder.pr_id.v, "branch")
             ELSE OnlySelector(report.dict, "branch",
                               builder.branch.v, "pull_request")

\* Called with a branch and a pr_id: tree page and source fetch asked for
\* the pull request, and the report names the pull request
C27_Witness ==
    /\ builder.fn = "get_uncovered_lines"
    /\ builder.branch = Str("main")
    /\ builder.pr_id = Str("42")
    /\ report.kind = "returned"
    /\ TreeRequests # {}
    /\ SourceRequests # {}
    /\ \A k \in 1..Len(log) : Lookup(log[k].query, "pullRequest") = "42"
    /\ Lookup(report.dict, "pull_request") = "42"

====
